---- MODULE Spec2Model ----
(***************************************************************************)
(* Model of the pcluster configuration engine                              *)
(* (cli/pcluster/config/param_types.py, cli/pcluster/config/mapping.py):   *)
(* the schema-driven Param / Section classes that build a configuration    *)
(* tree from a file, from CloudFormation (CFN) parameters or from the      *)
(* schema defaults, and encode it back to CFN parameters or to a file.     *)
(*                                                                         *)
(* Representation of text.  A Python string is modelled by the sequence    *)
(* of its comma-free segments: "a,b" is <<"a","b">>, "NONE" is <<"NONE">>, *)
(* the empty string is <<"">>.  str.split(",") and ",".join() are the two  *)
(* directions of this bijection.  The segments (atoms) are TLA+ strings;   *)
(* the conversions on atoms (strip, int, float, str) are tables over the   *)
(* atoms the model uses.                                                   *)
(*                                                                         *)
(* Representation of Python values: [ty, v] records, ty one of "none",     *)
(* "str", "int", "float", "bool", "list", "dict".  A float is held in      *)
(* tenths (0.5 is 5).                                                      *)
(***************************************************************************)
EXTENDS Integers, Sequences, FiniteSets, TLC

\* ------------------------------------------------------------------------
\* Python values
\* ------------------------------------------------------------------------

None == [ty |-> "none", v |-> <<>>]

S(t) == [ty |-> "str", v |-> t]

I(n) == [ty |-> "int", v |-> n]

F(tenths) == [ty |-> "float", v |-> tenths]

B(b) == [ty |-> "bool", v |-> b]

L(items) == [ty |-> "list", v |-> items]

D(content) == [ty |-> "dict", v |-> content]

\* a one-segment string
A(atom) == S(<<atom>>)

IsNumeric(x) == x.ty \in {"int", "float", "bool"}

\* numeric value in tenths, for Python's cross-type numeric equality
Tenths(x) ==
  CASE x.ty = "int" -> 10 * x.v
    [] x.ty = "float" -> x.v
    [] x.ty = "bool" -> IF x.v THEN 10 ELSE 0
    [] OTHER -> 0

\* Python ==
PyEq(x, y) ==
  IF x.ty = y.ty THEN x.v = y.v
  ELSE IF IsNumeric(x) /\ IsNumeric(y) THEN Tenths(x) = Tenths(y)
  ELSE FALSE

\* Python truthiness (bool(x))
Truthy(x) ==
  CASE x.ty = "none" -> FALSE
    [] x.ty = "str" -> x.v # <<"">>
    [] x.ty = "int" -> x.v # 0
    [] x.ty = "float" -> x.v # 0
    [] x.ty = "bool" -> x.v
    [] x.ty = "list" -> x.v # <<>>
    [] x.ty = "dict" -> x.v # <<>>
    [] OTHER -> FALSE

\* truthiness of a str-or-None argument given as text (<<>> stands for None)
NoText == <<>>

TextTruthy(t) == t # NoText /\ t # <<"">>

\* ------------------------------------------------------------------------
\* Conversions on atoms
\* ------------------------------------------------------------------------

\* str.strip() on one segment: the left-padded atoms of the model
LStrip(a) ==
  CASE a = " ebs2" -> "ebs2"
    [] a = " ebs1" -> "ebs1"
    [] a = " p2" -> "p2"
    [] OTHER -> a

\* no atom of the model carries trailing white space
RStrip(a) == a

Strip(a) == RStrip(LStrip(a))

\* str.strip() on a whole text: white space goes from the two ends only
StripText(t) ==
  IF t = NoText THEN t
  ELSE IF Len(t) = 1 THEN <<Strip(t[1])>>
  ELSE <<LStrip(t[1])>> \o SubSeq(t, 2, Len(t) - 1) \o <<RStrip(t[Len(t)])>>

\* the integer literals of the model: int(a) succeeds exactly on these
IntTable ==
  [a \in {"0", "1", "2", "3", "4", "5", "6", "7", "10", "20", "50", "100"} |->
     CASE a = "0" -> 0 [] a = "1" -> 1 [] a = "2" -> 2 [] a = "3" -> 3
       [] a = "4" -> 4 [] a = "5" -> 5 [] a = "6" -> 6 [] a = "7" -> 7
       [] a = "10" -> 10 [] a = "20" -> 20 [] a = "50" -> 50 [] a = "100" -> 100]

IsIntText(a) == a \in DOMAIN IntTable

\* the float literals of the model that are not integer literals, in tenths
FloatTable ==
  [a \in {"0.0", "0.5", "7.0", "50.0"} |->
     CASE a = "0.0" -> 0 [] a = "0.5" -> 5 [] a = "7.0" -> 70 [] a = "50.0" -> 500]

\* float(a) succeeds on integer and float literals
IsFloatText(a) == a \in DOMAIN IntTable \/ a \in DOMAIN FloatTable

FloatOf(a) == IF a \in DOMAIN IntTable THEN 10 * IntTable[a] ELSE FloatTable[a]

\* str(n) for an int
StrInt(n) ==
  IF \E a \in DOMAIN IntTable : IntTable[a] = n
  THEN CHOOSE a \in DOMAIN IntTable : IntTable[a] = n
  ELSE "?int"

\* str(x) for a float: always with a fractional part
StrFloat(t) ==
  IF \E a \in DOMAIN FloatTable : FloatTable[a] = t
  THEN CHOOSE a \in DOMAIN FloatTable : FloatTable[a] = t
  ELSE "?float"

\* str(list) and str(dict): Python's repr, opaque to the model
ReprList(items) == <<"?list">> \o items

\* str(x) as text
Str(x) ==
  CASE x.ty = "none" -> <<"None">>
    [] x.ty = "str" -> x.v
    [] x.ty = "int" -> <<StrInt(x.v)>>
    [] x.ty = "float" -> <<StrFloat(x.v)>>
    [] x.ty = "bool" -> IF x.v THEN <<"True">> ELSE <<"False">>
    [] x.ty = "list" -> IF x.v = <<>> THEN <<"[]">> ELSE ReprList(x.v)
    [] x.ty = "dict" -> IF x.v = <<>> THEN <<"{}">> ELSE x.v
    [] OTHER -> <<"?">>

\* ------------------------------------------------------------------------
\* The schema (mapping.py).  A parameter map is a record: key, type (the
\* Param class), dflt (the "default" entry, None when absent), cfn (the CFN
\* parameter name, "" when absent), allowed (the id of the "allowed_values"
\* entry, "" when absent), validator (its name, "" when absent or None) and
\* ref (the key of the "referred_section", "" when absent).
\* ------------------------------------------------------------------------

P(key, type, dflt, cfn, allowed, validator) ==
  [key |-> key, type |-> type, dflt |-> dflt, cfn |-> cfn,
   allowed |-> allowed, validator |-> validator, ref |-> ""]

R(key, type, dflt, ref) ==
  [key |-> key, type |-> type, dflt |-> dflt, cfn |-> "",
   allowed |-> "", validator |-> "", ref |-> ref]

AWS ==
  [key |-> "aws", label |-> "", cfn |-> "", type |-> "Section", validator |-> "",
   params |-> <<
     P("aws_access_key_id", "Param", None, "", "", ""),
     P("aws_secret_access_key", "Param", None, "", "", ""),
     P("aws_region_name", "Param", A("us-east-1"), "", "", "") >>]

ALIASES ==
  [key |-> "aliases", label |-> "", cfn |-> "", type |-> "Section", validator |-> "",
   params |-> << P("ssh", "Param", A("ssh {CFN_USER}@{MASTER_IP} {ARGS}"), "", "", "") >>]

SCALING ==
  [key |-> "scaling", label |-> "default", cfn |-> "", type |-> "Section", validator |-> "",
   params |-> << P("scaledown_idletime", "IntParam", I(10), "ScaleDownIdleTime", "", "") >>]

VPC ==
  [key |-> "vpc", label |-> "default", cfn |-> "", type |-> "Section", validator |-> "",
   params |-> <<
     P("vpc_id", "Param", None, "VPCId", "VPC_ID", "ec2_vpc_id_validator"),
     P("master_subnet_id", "Param", None, "MasterSubnetId", "SUBNET_ID", "ec2_subnet_id_validator"),
     P("ssh_from", "Param", A("0.0.0.0/0"), "AccessFrom", "CIDR", ""),
     P("additional_sg", "Param", None, "AdditionalSG", "SECURITY_GROUP_ID", "ec2_security_group_validator"),
     P("compute_subnet_id", "Param", None, "ComputeSubnetId", "SUBNET_ID", "ec2_subnet_id_validator"),
     P("compute_subnet_cidr", "Param", None, "ComputeSubnetCidr", "CIDR", ""),
     P("use_public_ips", "BoolParam", B(TRUE), "UsePublicIps", "", ""),
     P("vpc_security_group_id", "Param", None, "VPCSecurityGroupId", "SECURITY_GROUP_ID", "ec2_security_group_validator"),
     P("master_availability_zone", "AvailabilityZoneParam", None, "AvailabilityZone", "", "") >>]

EBS ==
  [key |-> "ebs", label |-> "default", cfn |-> "", type |-> "Section", validator |-> "",
   params |-> <<
     P("shared_dir", "Param", None, "SharedDir", "", ""),
     P("ebs_snapshot_id", "Param", None, "EBSSnapshotId", "SNAPSHOT_ID", "ec2_ebs_snapshot_validator"),
     P("volume_type", "Param", A("gp2"), "VolumeType", "VOLUME_TYPES", ""),
     P("volume_size", "IntParam", I(20), "VolumeSize", "", ""),
     P("volume_iops", "IntParam", I(100), "VolumeIOPS", "", ""),
     P("encrypted", "BoolParam", B(FALSE), "EBSEncryption", "", ""),
     P("ebs_kms_key_id", "Param", None, "EBSKMSKeyId", "", ""),
     P("ebs_volume_id", "Param", None, "EBSVolumeId", "VOLUME_ID", "ec2_volume_validator") >>]

EFS ==
  [key |-> "efs", label |-> "default", cfn |-> "EFSOptions", type |-> "EFSSection",
   validator |-> "efs_validator",
   params |-> <<
     P("shared_dir", "Param", None, "", "", ""),
     P("efs_fs_id", "Param", None, "", "EFS_FS_ID", "efs_id_validator"),
     P("performance_mode", "Param", A("generalPurpose"), "", "PERFORMANCE_MODES", ""),
     P("efs_kms_key_id", "Param", None, "", "", ""),
     P("provisioned_throughput", "FloatParam", None, "", "THROUGHPUT", ""),
     P("encrypted", "BoolParam", B(FALSE), "", "", ""),
     P("throughput_mode", "Param", A("bursting"), "", "THROUGHPUT_MODES", "") >>]

RAID ==
  [key |-> "raid", label |-> "default", cfn |-> "RAIDOptions", type |-> "Section",
   validator |-> "",
   params |-> <<
     P("shared_dir", "Param", None, "", "", ""),
     P("raid_type", "IntParam", None, "", "RAID_TYPES", ""),
     P("num_of_raid_volumes", "IntParam", None, "", "RAID_VOLUMES", ""),
     P("volume_type", "Param", A("gp2"), "", "VOLUME_TYPES", ""),
     P("volume_size", "IntParam", I(20), "", "", ""),
     P("volume_iops", "IntParam", I(100), "", "", "raid_volume_iops_validator"),
     P("encrypted", "BoolParam", B(FALSE), "", "", ""),
     P("ebs_kms_key_id", "Param", None, "", "", "") >>]

FSX ==
  [key |-> "fsx", label |-> "default", cfn |-> "FSXOptions", type |-> "Section",
   validator |-> "fsx_validator",
   params |-> <<
     P("shared_dir", "Param", None, "", "", ""),
     P("fsx_fs_id", "Param", None, "", "FSX_FS_ID", "fsx_id_validator"),
     P("storage_capacity", "IntParam", None, "", "", "fsx_storage_capacity_validator"),
     P("fsx_kms_key_id", "Param", None, "", "", ""),
     P("imported_file_chunk_size", "IntParam", None, "", "", "fsx_imported_file_chunk_size_validator"),
     P("export_path", "Param", None, "", "", ""),
     P("import_path", "Param", None, "", "", ""),
     P("weekly_maintenance_start_time", "Param", None, "", "", "") >>]

CLUSTER ==
  [key |-> "cluster", label |-> "default", cfn |-> "", type |-> "ClusterSection",
   validator |-> "cluster_validator",
   params |-> <<
     P("key_name", "Param", None, "KeyName", "", "ec2_key_pair_validator"),
     P("template_url", "Param", None, "", "", "url_validator"),
     P("base_os", "Param", A("alinux"), "BaseOS", "BASE_OS", ""),
     P("scheduler", "Param", A("sge"), "Scheduler", "SCHEDULERS", "scheduler_validator"),
     P("shared_dir", "SharedDirParam", A("/shared"), "SharedDir", "", ""),
     P("placement_group", "Param", None, "PlacementGroup", "", "ec2_placement_group_validator"),
     P("placement", "Param", A("compute"), "Placement", "PLACEMENTS", ""),
     P("master_instance_type", "Param", A("t2.micro"), "MasterInstanceType", "", ""),
     P("master_root_volume_size", "IntParam", I(20), "MasterRootVolumeSize", "ROOT_VOLUME_SIZE", ""),
     P("compute_instance_type", "Param", A("t2.micro"), "ComputeInstanceType", "", "compute_instance_type_validator"),
     P("compute_root_volume_size", "IntParam", I(20), "ComputeRootVolumeSize", "ROOT_VOLUME_SIZE", ""),
     P("initial_queue_size", "DesiredSizeParam", I(0), "DesiredSize", "", ""),
     P("max_queue_size", "MaxSizeParam", I(10), "MaxSize", "", ""),
     P("maintain_initial_size", "MaintainInitialSizeParam", B(FALSE), "MinSize", "", ""),
     P("min_vcpus", "MinSizeParam", I(0), "MinSize", "", ""),
     P("desired_vcpus", "DesiredSizeParam", I(4), "DesiredSize", "", ""),
     P("max_vcpus", "MaxSizeParam", I(10), "MaxSize", "", ""),
     P("cluster_type", "Param", A("ondemand"), "ClusterType", "CLUSTER_TYPES", ""),
     P("spot_price", "SpotPriceParam", F(0), "SpotPrice", "", ""),
     P("spot_bid_percentage", "SpotBidPercentageParam", I(0), "SpotPrice", "SPOT_BID", ""),
     P("proxy_server", "Param", None, "ProxyServer", "", ""),
     P("ec2_iam_role", "Param", None, "EC2IAMRoleName", "", "ec2_iam_role_validator"),
     P("additional_iam_policies", "AdditionalIamPoliciesParam", None, "EC2IAMPolicies", "", "ec2_iam_policies_validator"),
     P("s3_read_resource", "Param", None, "S3ReadResource", "", ""),
     P("s3_read_write_resource", "Param", None, "S3ReadWriteResource", "", ""),
     P("enable_efa", "Param", None, "EFA", "EFA", "efa_validator"),
     P("ephemeral_dir", "Param", A("/scratch"), "EphemeralDir", "", ""),
     P("encrypted_ephemeral", "BoolParam", B(FALSE), "EncryptedEphemeral", "", ""),
     P("custom_ami", "Param", None, "CustomAMI", "AMI_ID", "ec2_ami_validator"),
     P("pre_install", "Param", None, "PreInstallScript", "", "url_validator"),
     P("pre_install_args", "Param", None, "PreInstallArgs", "", ""),
     P("post_install", "Param", None, "PostInstallScript", "", "url_validator"),
     P("post_install_args", "Param", None, "PostInstallArgs", "", ""),
     P("extra_json", "JsonParam", None, "ExtraJson", "", ""),
     P("additional_cfn_template", "Param", None, "AdditionalCfnTemplate", "", "url_validator"),
     P("tags", "JsonParam", None, "", "", ""),
     P("custom_chef_cookbook", "Param", None, "CustomChefCookbook", "", "url_validator"),
     P("custom_awsbatch_template_url", "Param", None, "CustomAWSBatchTemplateURL", "", "url_validator"),
     R("scaling_settings", "SettingsParam", A("default"), "scaling"),
     R("vpc_settings", "SettingsParam", A("default"), "vpc"),
     R("ebs_settings", "EBSSettingsParam", None, "ebs"),
     R("efs_settings", "SettingsParam", None, "efs"),
     R("raid_settings", "SettingsParam", None, "raid"),
     R("fsx_settings", "SettingsParam", None, "fsx") >>]

GLOBAL ==
  [key |-> "global", label |-> "", cfn |-> "", type |-> "Section", validator |-> "",
   params |-> <<
     P("cluster_template", "Param", A("default"), "", "", ""),
     P("update_check", "BoolParam", B(TRUE), "", "", ""),
     P("sanity_check", "BoolParam", B(TRUE), "", "", "") >>]

\* the section map a "referred_section" entry (or a section key) names
SectionMap(kind) ==
  CASE kind = "aws" -> AWS
    [] kind = "aliases" -> ALIASES
    [] kind = "scaling" -> SCALING
    [] kind = "vpc" -> VPC
    [] kind = "ebs" -> EBS
    [] kind = "efs" -> EFS
    [] kind = "raid" -> RAID
    [] kind = "fsx" -> FSX
    [] kind = "cluster" -> CLUSTER
    [] kind = "global" -> GLOBAL

SectionKinds ==
  {"aws", "aliases", "scaling", "vpc", "ebs", "efs", "raid", "fsx", "cluster", "global"}

\* the keys of a section map's "params", in declaration order
ParamKeys(section_map) ==
  [i \in 1..Len(section_map.params) |-> section_map.params[i].key]

\* section_map.get("params")[param_key]
ParamMap(section_map, param_key) ==
  LET i == CHOOSE j \in 1..Len(section_map.params) : section_map.params[j].key = param_key
  IN section_map.params[i]

HasParam(section_map, param_key) ==
  \E j \in 1..Len(section_map.params) : section_map.params[j].key = param_key

\* ------------------------------------------------------------------------
\* Outcomes.  An operation ends "ok", "fatal" (pcluster.utils.error: the
\* message is printed and the run exits), "crash" (an exception nothing
\* catches) or, inside a constructor, with configparser's NoOptionError.
\* ------------------------------------------------------------------------

NoErr == [type |-> "", key |-> "", info |-> <<>>]

Err(type, key, info) == [type |-> type, key |-> key, info |-> info]

Ok(value) == [st |-> "ok", err |-> NoErr, value |-> value]

Fatal(type, key, info) == [st |-> "fatal", err |-> Err(type, key, info), value |-> None]

Crash(type, key, info) == [st |-> "crash", err |-> Err(type, key, info), value |-> None]

NoOptionError == [st |-> "NoOptionError", err |-> NoErr, value |-> None]

\* ------------------------------------------------------------------------
\* The Param class hierarchy
\* ------------------------------------------------------------------------

IntTypes ==
  {"IntParam", "SpotBidPercentageParam", "DesiredSizeParam", "MaxSizeParam", "MinSizeParam"}

FloatTypes == {"FloatParam", "SpotPriceParam"}

BoolTypes == {"BoolParam", "MaintainInitialSizeParam"}

CommaTypes == {"CommaSeparatedParam", "AdditionalIamPoliciesParam"}

JsonTypes == {"JsonParam"}

SettingsTypes == {"SettingsParam", "EBSSettingsParam"}

\* param_map.get("default", None)
MapDefault(param_map) == param_map.dflt

\* Param.get_default_value and its overrides
get_default_value(param_map) ==
  IF param_map.dflt # None THEN param_map.dflt
  ELSE IF param_map.type \in CommaTypes THEN L(<<>>)
  ELSE IF param_map.type \in JsonTypes THEN D(<<>>)
  ELSE None

\* the allowed_values that are lists
AllowedList(id) ==
  CASE id = "VOLUME_TYPES" -> {A("standard"), A("io1"), A("gp2"), A("st1"), A("sc1")}
    [] id = "PERFORMANCE_MODES" -> {A("generalPurpose"), A("maxIO")}
    [] id = "THROUGHPUT_MODES" -> {A("provisioned"), A("bursting")}
    [] id = "RAID_TYPES" -> {I(0), I(1)}
    [] id = "BASE_OS" -> {A("alinux"), A("ubuntu1604"), A("ubuntu1804"), A("centos6"), A("centos7")}
    [] id = "SCHEDULERS" -> {A("awsbatch"), A("sge"), A("slurm"), A("torque")}
    [] id = "PLACEMENTS" -> {A("cluster"), A("compute")}
    [] id = "CLUSTER_TYPES" -> {A("ondemand"), A("spot")}
    [] id = "EFA" -> {A("compute")}
    [] OTHER -> {}

IsAllowedList(id) ==
  id \in {"VOLUME_TYPES", "PERFORMANCE_MODES", "THROUGHPUT_MODES", "RAID_TYPES", "BASE_OS",
          "SCHEDULERS", "PLACEMENTS", "CLUSTER_TYPES", "EFA"}

\* the allowed_values that are patterns: the atoms of the model each one matches
RegexAtoms(id) ==
  CASE id = "VPC_ID" -> {"vpc-12345678"}
    [] id = "SUBNET_ID" -> {"subnet-12345678"}
    [] id = "CIDR" -> {"0.0.0.0/0", "10.0.0.0/16"}
    [] id = "SECURITY_GROUP_ID" -> {"sg-12345678"}
    [] id = "SNAPSHOT_ID" -> {"snap-12345678"}
    [] id = "VOLUME_ID" -> {"vol-12345678"}
    [] id = "EFS_FS_ID" -> {"fs-12345678", "fs-12345678901234567",
                            "fs-12345678901234567-bad", "NONE"}
    [] id = "FSX_FS_ID" -> {"fs-12345678901234567", "fs-12345678901234567-bad", "NONE"}
    [] id = "THROUGHPUT" -> {"0", "1", "2", "3", "4", "5", "6", "7", "10", "20", "50", "100",
                             "0.0", "0.5", "7.0", "50.0"}
    [] id = "RAID_VOLUMES" -> {"1", "2", "3", "4", "5"}
    [] id = "ROOT_VOLUME_SIZE" -> {"20", "50", "100"}
    [] id = "SPOT_BID" -> {"0", "1", "2", "3", "4", "5", "6", "7", "10", "20", "50", "100"}
    [] id = "AMI_ID" -> {"ami-12345678"}
    [] OTHER -> {}

\* re.compile(allowed_values).match(str(value)): the pattern is matched at the
\* start of the text, and its end only where an alternative ends with $
RegexMatch(id, text) == Len(text) = 1 /\ text[1] \in RegexAtoms(id)

\* Param._check_allowed_values
check_allowed_values(param_map, value) ==
  IF param_map.allowed = "" THEN Ok(value)
  ELSE IF IsAllowedList(param_map.allowed)
  THEN IF \E x \in AllowedList(param_map.allowed) : PyEq(value, x)
       THEN Ok(value)
       ELSE Fatal("invalid value", param_map.key, <<param_map.allowed>>)
  ELSE IF RegexMatch(param_map.allowed, Str(value))
       THEN Ok(value)
       ELSE Fatal("invalid value", param_map.key, <<param_map.allowed>>)

\* yaml.safe_load on the JSON texts of the model
YamlLoad(param_map, text) ==
  IF text = <<"{}">> THEN Ok(D(<<>>))
  ELSE IF text = <<"{\"a\": 1}">> THEN Ok(D(<<"{'a': 1}">>))
  ELSE IF text = <<"{">> THEN Fatal("Error parsing JSON parameter", param_map.key, text)
  ELSE IF Len(text) = 1 /\ IsIntText(text[1]) THEN Ok(I(IntTable[text[1]]))
  ELSE Ok(S(text))

\* list(map(lambda x: x.strip(), string_value.split(",")))
SplitStrip(text) == [i \in 1..Len(text) |-> Strip(text[i])]

\* get_value_from_string, by class; string_value is a text, NoText for None
get_value_from_string(param_map, string_value) ==
  LET dflt == get_default_value(param_map)
      stripped == StripText(string_value)
  IN IF param_map.type \in CommaTypes
     THEN IF TextTruthy(string_value) /\ string_value # <<"NONE">>
          THEN Ok(L(SplitStrip(string_value)))
          ELSE Ok(dflt)
     ELSE IF param_map.type \in FloatTypes
     THEN IF string_value # NoText /\ stripped # <<"NONE">>
             /\ Len(stripped) = 1 /\ IsFloatText(stripped[1])
          THEN Ok(F(FloatOf(stripped[1])))
          ELSE Ok(dflt)
     ELSE IF param_map.type \in BoolTypes
     THEN IF string_value # NoText /\ stripped # <<"NONE">>
          THEN Ok(B(stripped = <<"true">>))
          ELSE Ok(dflt)
     ELSE IF param_map.type \in IntTypes
     THEN IF string_value # NoText /\ stripped # <<"NONE">>
             /\ Len(stripped) = 1 /\ IsIntText(stripped[1])
          THEN Ok(I(IntTable[stripped[1]]))
          ELSE Ok(dflt)
     ELSE IF param_map.type \in JsonTypes
     THEN IF TextTruthy(string_value) /\ stripped # <<"NONE">>
          THEN YamlLoad(param_map, stripped)
          ELSE Ok(dflt)
     ELSE IF TextTruthy(stripped) /\ stripped # <<"NONE">>
          THEN Ok(S(stripped))
          ELSE Ok(dflt)

\* ------------------------------------------------------------------------
\* The inputs: a configparser object and a list of CFN parameters
\* ------------------------------------------------------------------------

\* config_parser=None
NoFile == [some |-> FALSE, secs |-> <<>>]

\* a ConfigParser holding the given blocks: block name -> (key -> text)
File(secs) == [some |-> TRUE, secs |-> secs]

\* cfn_params=None (or an empty list: both are falsy)
NoCfn == <<>>

CfnGiven(cfn_params) == DOMAIN cfn_params # {}

\* _get_file_section_name: "<key> <label>", or "<key>" for an empty label,
\* held as the pair
get_file_section_name(section_key, section_label) == <<section_key, section_label>>

\* pcluster.utils.get_cfn_param: the stripped ParameterValue, "NONE" if absent
get_cfn_param(cfn_params, key_name) ==
  IF key_name \in DOMAIN cfn_params THEN StripText(cfn_params[key_name]) ELSE <<"NONE">>

\* pcluster.utils.get_avail_zone: the zone of a subnet, an external lookup
get_avail_zone(subnet_text) == A("us-east-1a")

\* pcluster.utils.get_partition
aws_batch_iam_policy == "arn:aws:iam::aws:policy/AWSBatchFullAccess"

\* list.remove(x) when x is in the list: the first occurrence goes
ListRemove(items, x) ==
  IF \E i \in 1..Len(items) : items[i] = x
  THEN LET k == CHOOSE i \in 1..Len(items) : items[i] = x /\ \A j \in 1..(i - 1) : items[j] # x
       IN SubSeq(items, 1, k - 1) \o SubSeq(items, k + 1, Len(items))
  ELSE items

\* RawConfigParser.getboolean
BooleanStates ==
  [a \in {"1", "yes", "true", "on", "0", "no", "false", "off"} |->
     a \in {"1", "yes", "true", "on"}]

\* ------------------------------------------------------------------------
\* The configuration tree (PclusterConfig): (section key, label) -> Section
\* A Section is [key, label, params]; params maps a parameter key to the
\* Param instance [value, via], via recording which of _init_from_cfn,
\* _init_from_file and _init_from_map set the value.
\* ------------------------------------------------------------------------

EmptyTree == <<>>

\* PclusterConfig.add_section
add_section(tree, section) ==
  LET Labelled(default_label) ==
        (<<section.key, IF section.label # "" THEN section.label
                        ELSE IF default_label # "" THEN default_label
                        ELSE "default">> :> section) @@ tree
  IN Labelled(SectionMap(section.key).label)

\* PclusterConfig.get_section(key, label) is not None
has_section(tree, section_key, section_label) ==
  IF section_label # ""
  THEN <<section_key, section_label>> \in DOMAIN tree
  ELSE \E id \in DOMAIN tree : id[1] = section_key

\* PclusterConfig.get_section(key, label): with no label, the first section of the key
get_section(tree, section_key, section_label) ==
  IF section_label # ""
  THEN tree[<<section_key, section_label>>]
  ELSE tree[CHOOSE id \in DOMAIN tree : id[1] = section_key]

\* a Param instance
Inst(value, via) == [value |-> value, via |-> via]

\* the result of constructing a Param: outcome, instance and the tree after it
PRes(r, via, tree) == [st |-> r.st, err |-> r.err, value |-> r.value, via |-> via, tree |-> tree]

\* "{0}{1}".format(related_section_key, str(index + 1)), index from 0
SynthLabel(section_key, index) ==
  IF section_key = "ebs"
  THEN CASE index = 0 -> "ebs1" [] index = 1 -> "ebs2" [] index = 2 -> "ebs3"
         [] index = 3 -> "ebs4" [] index = 4 -> "ebs5" [] index = 5 -> "ebs6"
         [] OTHER -> "ebs7+"
  ELSE "?label"

\* ------------------------------------------------------------------------
\* Param construction
\* ------------------------------------------------------------------------

\* an _init_from_file that leaves None for a key the block does not hold,
\* instead of raising NoOptionError
Param_init_from_file_no_option(param_map, opts) ==
  IF param_map.key \in DOMAIN opts THEN Ok(S(opts[param_map.key])) ELSE Ok(None)

\* _init_from_file of the classes that hold data; opts is the block of the
\* parameter's section (key -> text)
Param_init_from_file(param_map, opts) ==
  IF param_map.type = "AvailabilityZoneParam"
  THEN IF "master_subnet_id" \in DOMAIN opts
       THEN check_allowed_values(param_map, get_avail_zone(opts["master_subnet_id"]))
       ELSE NoOptionError
  ELSE IF param_map.key \notin DOMAIN opts THEN NoOptionError
  ELSE LET text == opts[param_map.key]
       IN IF param_map.type \in CommaTypes
          THEN check_allowed_values(param_map, L(SplitStrip(text)))
          ELSE IF param_map.type \in FloatTypes
          THEN IF Len(text) = 1 /\ IsFloatText(Strip(text[1]))
               THEN check_allowed_values(param_map, F(FloatOf(Strip(text[1]))))
               ELSE Fatal("must be a Float", param_map.key, <<>>)
          ELSE IF param_map.type \in BoolTypes
          THEN IF Len(text) = 1 /\ text[1] \in DOMAIN BooleanStates
               THEN check_allowed_values(param_map, B(BooleanStates[text[1]]))
               ELSE Fatal("must be a Boolean", param_map.key, <<>>)
          ELSE IF param_map.type \in IntTypes
          THEN IF Len(text) = 1 /\ IsIntText(Strip(text[1]))
               THEN check_allowed_values(param_map, I(IntTable[Strip(text[1])]))
               ELSE Fatal("must be an Integer", param_map.key, <<>>)
          ELSE IF param_map.type \in JsonTypes
          THEN LET r == get_value_from_string(param_map, text)
               IN IF r.st = "ok" THEN check_allowed_values(param_map, r.value) ELSE r
          ELSE check_allowed_values(param_map, S(text))

\* Param._init_from_map of the classes that hold data
Param_init_from_map(param_map) == Ok(get_default_value(param_map))

\* Param._init_from_cfn (the base class): [outcome, via]
Param_init_from_cfn(param_map, cfn_params, cfn_value) ==
  IF param_map.cfn # "" /\ CfnGiven(cfn_params)
  THEN [r |-> get_value_from_string(param_map, get_cfn_param(cfn_params, param_map.cfn)),
        via |-> "cfn"]
  ELSE IF TextTruthy(cfn_value)
  THEN [r |-> get_value_from_string(param_map, cfn_value), via |-> "cfn"]
  ELSE [r |-> Param_init_from_map(param_map), via |-> "map"]

\* AdditionalIamPoliciesParam._init_from_cfn
AdditionalIamPoliciesParam_init_from_cfn(param_map, cfn_params, cfn_value) ==
  LET b == Param_init_from_cfn(param_map, cfn_params, cfn_value)
  IN IF b.r.st = "ok" /\ b.r.value.ty = "list"
     THEN [r |-> Ok(L(ListRemove(b.r.value.v, aws_batch_iam_policy))), via |-> b.via]
     ELSE b

\* SpotPriceParam._init_from_cfn
SpotPriceParam_init_from_cfn(param_map, cfn_params, cfn_value) ==
  IF param_map.cfn # "" /\ CfnGiven(cfn_params)
  THEN IF get_cfn_param(cfn_params, "Scheduler") = <<"awsbatch">>
       THEN [r |-> Param_init_from_map(param_map), via |-> "map"]
       ELSE LET text == get_cfn_param(cfn_params, param_map.cfn)
            IN IF Len(text) = 1 /\ IsFloatText(text[1])
               THEN [r |-> Ok(F(FloatOf(text[1]))), via |-> "cfn"]
               ELSE [r |-> Crash("ValueError", param_map.key, text), via |-> "cfn"]
  ELSE IF TextTruthy(cfn_value)
  THEN [r |-> get_value_from_string(param_map, cfn_value), via |-> "cfn"]
  ELSE [r |-> Param_init_from_map(param_map), via |-> "map"]

\* SpotBidPercentageParam._init_from_cfn
SpotBidPercentageParam_init_from_cfn(param_map, cfn_params, cfn_value) ==
  IF param_map.cfn # "" /\ CfnGiven(cfn_params)
  THEN IF get_cfn_param(cfn_params, "Scheduler") = <<"awsbatch">>
       THEN LET text == get_cfn_param(cfn_params, param_map.cfn)
            IN IF Len(text) = 1 /\ IsFloatText(text[1])
               THEN [r |-> Ok(I(FloatOf(text[1]) \div 10)), via |-> "cfn"]
               ELSE [r |-> Crash("ValueError", param_map.key, text), via |-> "cfn"]
       ELSE [r |-> Param_init_from_map(param_map), via |-> "map"]
  ELSE IF TextTruthy(cfn_value)
  THEN [r |-> get_value_from_string(param_map, cfn_value), via |-> "cfn"]
  ELSE [r |-> Param_init_from_map(param_map), via |-> "map"]

\* whether the parameter is the awsbatch one of its pair
IsBatchKey(key) == key \in {"desired_vcpus", "max_vcpus"}

\* a DesiredSizeParam._init_from_cfn that reads the slot whatever the scheduler
DesiredSizeParam_init_from_cfn_any_scheduler(param_map, cfn_params, cfn_value) ==
  IF param_map.cfn # "" /\ CfnGiven(cfn_params)
  THEN [r |-> get_value_from_string(param_map, get_cfn_param(cfn_params, param_map.cfn)),
        via |-> "cfn"]
  ELSE IF TextTruthy(cfn_value)
  THEN [r |-> get_value_from_string(param_map, cfn_value), via |-> "cfn"]
  ELSE [r |-> Param_init_from_map(param_map), via |-> "map"]

\* DesiredSizeParam._init_from_cfn
DesiredSizeParam_init_from_cfn(param_map, cfn_params, cfn_value) ==
  IF param_map.cfn # "" /\ CfnGiven(cfn_params)
  THEN IF (get_cfn_param(cfn_params, "Scheduler") = <<"awsbatch">>) = IsBatchKey(param_map.key)
       THEN [r |-> get_value_from_string(param_map, get_cfn_param(cfn_params, param_map.cfn)),
             via |-> "cfn"]
       ELSE [r |-> Param_init_from_map(param_map), via |-> "map"]
  ELSE IF TextTruthy(cfn_value)
  THEN [r |-> get_value_from_string(param_map, cfn_value), via |-> "cfn"]
  ELSE [r |-> Param_init_from_map(param_map), via |-> "map"]

\* MaxSizeParam._init_from_cfn
MaxSizeParam_init_from_cfn(param_map, cfn_params, cfn_value) ==
  IF param_map.cfn # "" /\ CfnGiven(cfn_params)
  THEN IF (get_cfn_param(cfn_params, "Scheduler") = <<"awsbatch">>) = IsBatchKey(param_map.key)
       THEN [r |-> get_value_from_string(param_map, get_cfn_param(cfn_params, param_map.cfn)),
             via |-> "cfn"]
       ELSE [r |-> Param_init_from_map(param_map), via |-> "map"]
  ELSE IF TextTruthy(cfn_value)
  THEN [r |-> get_value_from_string(param_map, cfn_value), via |-> "cfn"]
  ELSE [r |-> Param_init_from_map(param_map), via |-> "map"]

\* a MaintainInitialSizeParam._init_from_cfn that tests min_size_value >= 0
MaintainInitialSizeParam_init_from_cfn_zero_true(param_map, cfn_params, cfn_value) ==
  IF param_map.cfn # "" /\ CfnGiven(cfn_params)
  THEN IF get_cfn_param(cfn_params, "Scheduler") = <<"awsbatch">>
       THEN [r |-> Param_init_from_map(param_map), via |-> "map"]
       ELSE LET text == get_cfn_param(cfn_params, param_map.cfn)
            IN IF text = <<"NONE">>
               THEN [r |-> Ok(B(TRUE)), via |-> "cfn"]
               ELSE IF Len(text) = 1 /\ IsIntText(text[1])
               THEN [r |-> Ok(B(IntTable[text[1]] >= 0)), via |-> "cfn"]
               ELSE [r |-> Crash("ValueError", param_map.key, text), via |-> "cfn"]
  ELSE IF TextTruthy(cfn_value)
  THEN [r |-> get_value_from_string(param_map, cfn_value), via |-> "cfn"]
  ELSE [r |-> Param_init_from_map(param_map), via |-> "map"]

\* MaintainInitialSizeParam._init_from_cfn
MaintainInitialSizeParam_init_from_cfn(param_map, cfn_params, cfn_value) ==
  IF param_map.cfn # "" /\ CfnGiven(cfn_params)
  THEN IF get_cfn_param(cfn_params, "Scheduler") = <<"awsbatch">>
       THEN [r |-> Param_init_from_map(param_map), via |-> "map"]
       ELSE LET text == get_cfn_param(cfn_params, param_map.cfn)
            IN IF text = <<"NONE">>
               THEN [r |-> Ok(B(FALSE)), via |-> "cfn"]
               ELSE IF Len(text) = 1 /\ IsIntText(text[1])
               THEN [r |-> Ok(B(IntTable[text[1]] > 0)), via |-> "cfn"]
               ELSE [r |-> Crash("ValueError", param_map.key, text), via |-> "cfn"]
  ELSE IF TextTruthy(cfn_value)
  THEN [r |-> get_value_from_string(param_map, cfn_value), via |-> "cfn"]
  ELSE [r |-> Param_init_from_map(param_map), via |-> "map"]

\* MinSizeParam._init_from_cfn
MinSizeParam_init_from_cfn(param_map, cfn_params, cfn_value) ==
  IF param_map.cfn # "" /\ CfnGiven(cfn_params)
  THEN IF get_cfn_param(cfn_params, "Scheduler") = <<"awsbatch">>
       THEN [r |-> get_value_from_string(param_map, get_cfn_param(cfn_params, param_map.cfn)),
             via |-> "cfn"]
       ELSE [r |-> Param_init_from_map(param_map), via |-> "map"]
  ELSE IF TextTruthy(cfn_value)
  THEN [r |-> get_value_from_string(param_map, cfn_value), via |-> "cfn"]
  ELSE [r |-> Param_init_from_map(param_map), via |-> "map"]

\* _init_from_cfn, dispatched on the class of a parameter that holds data
init_from_cfn(param_map, cfn_params, cfn_value) ==
  CASE param_map.type = "AdditionalIamPoliciesParam" ->
         AdditionalIamPoliciesParam_init_from_cfn(param_map, cfn_params, cfn_value)
    [] param_map.type = "SpotPriceParam" ->
         SpotPriceParam_init_from_cfn(param_map, cfn_params, cfn_value)
    [] param_map.type = "SpotBidPercentageParam" ->
         SpotBidPercentageParam_init_from_cfn(param_map, cfn_params, cfn_value)
    [] param_map.type = "DesiredSizeParam" ->
         DesiredSizeParam_init_from_cfn(param_map, cfn_params, cfn_value)
    [] param_map.type = "MaxSizeParam" ->
         MaxSizeParam_init_from_cfn(param_map, cfn_params, cfn_value)
    [] param_map.type = "MaintainInitialSizeParam" ->
         MaintainInitialSizeParam_init_from_cfn(param_map, cfn_params, cfn_value)
    [] param_map.type = "MinSizeParam" ->
         MinSizeParam_init_from_cfn(param_map, cfn_params, cfn_value)
    [] OTHER -> Param_init_from_cfn(param_map, cfn_params, cfn_value)

\* ------------------------------------------------------------------------
\* Section and settings construction (mutually recursive: a settings
\* parameter constructs the section it refers to)
\* ------------------------------------------------------------------------

\* the result of constructing a Section
SRes(st, err, sec, tree) == [st |-> st, err |-> err, sec |-> sec, tree |-> tree]

\* a listing that stops after the first key
SetToSeq_first(set) == IF set = {} THEN <<>> ELSE <<CHOOSE y \in set : TRUE>>

RECURSIVE SetToSeq(_)
\* the keys of a set, listed
SetToSeq(set) ==
  IF set = {} THEN <<>>
  ELSE LET x == CHOOSE y \in set : TRUE IN <<x>> \o SetToSeq(set \ {x})

RECURSIVE Section_new(_, _, _, _, _, _)
RECURSIVE Param_new(_, _, _, _, _, _, _)
RECURSIVE init_params(_, _, _, _, _, _, _)
RECURSIVE EBSSettingsParam_sections_from_file(_, _, _, _, _)
RECURSIVE EBSSettingsParam_sections_from_cfn(_, _, _, _, _)

\* the end of SettingsParam._init_from_*: the related section s, once
\* constructed, is added to the tree and the parameter holds value
SettingsParam_add_section(s, value, via) ==
  IF s.st = "ok"
  THEN PRes(Ok(value), via, add_section(s.tree, s.sec))
  ELSE PRes([st |-> s.st, err |-> s.err, value |-> None], via, s.tree)

\* SettingsParam._init_from_map (EBSSettingsParam inherits it)
SettingsParam_init_from_map(param_map, tree) ==
  LET value == MapDefault(param_map)
  IN IF ~Truthy(value) THEN PRes(Ok(value), "map", tree)
     ELSE IF Len(value.v) > 1
     THEN PRes(Fatal("invalid default settings", param_map.key, value.v), "map", tree)
     ELSE SettingsParam_add_section(
            Section_new(SectionMap(param_map.ref), tree, value.v[1], NoCfn, NoFile, FALSE),
            value, "map")

\* SettingsParam._init_from_file building the related Section without
\* fail_on_absence
SettingsParam_init_from_file_lenient(param_map, tree, config_parser, opts) ==
  IF param_map.key \notin DOMAIN opts THEN SettingsParam_init_from_map(param_map, tree)
  ELSE LET text == opts[param_map.key]
       IN IF ~TextTruthy(text) THEN PRes(Ok(S(text)), "file", tree)
          ELSE IF Len(text) > 1
          THEN PRes(Fatal("invalid settings", param_map.key, text), "file", tree)
          ELSE SettingsParam_add_section(
                 Section_new(SectionMap(param_map.ref), tree, text[1], NoCfn, config_parser, FALSE),
                 S(text), "file")

\* SettingsParam._init_from_file
SettingsParam_init_from_file(param_map, tree, config_parser, opts) ==
  IF param_map.key \notin DOMAIN opts THEN SettingsParam_init_from_map(param_map, tree)
  ELSE LET text == opts[param_map.key]
       IN IF ~TextTruthy(text) THEN PRes(Ok(S(text)), "file", tree)
          ELSE IF Len(text) > 1
          THEN PRes(Fatal("invalid settings", param_map.key, text), "file", tree)
          ELSE SettingsParam_add_section(
                 Section_new(SectionMap(param_map.ref), tree, text[1], NoCfn, config_parser, TRUE),
                 S(text), "file")

\* SettingsParam._init_from_cfn
SettingsParam_init_from_cfn(param_map, tree, cfn_params) ==
  LET value == MapDefault(param_map)
  IN IF ~CfnGiven(cfn_params) THEN PRes(Ok(value), "cfn", tree)
     ELSE SettingsParam_add_section(
            Section_new(SectionMap(param_map.ref), tree,
                        IF value = None THEN "" ELSE value.v[1],
                        cfn_params, NoFile, FALSE),
            value, "cfn")

\* the end of EBSSettingsParam._init_from_*: the sections of the loop s are
\* in the tree and the parameter holds the labels
EBSSettingsParam_labelled(s, value, via) ==
  IF s.st = "ok"
  THEN PRes(Ok(value), via, s.tree)
  ELSE PRes([st |-> s.st, err |-> s.err, value |-> None], via, s.tree)

\* the loop of EBSSettingsParam._init_from_file over the labels of the value
EBSSettingsParam_sections_from_file(param_map, labels, i, tree, config_parser) ==
  IF i > Len(labels) THEN SRes("ok", NoErr, None, tree)
  ELSE LET Added(s) ==
             IF s.st = "ok"
             THEN EBSSettingsParam_sections_from_file(param_map, labels, i + 1,
                                                      add_section(s.tree, s.sec), config_parser)
             ELSE SRes(s.st, s.err, None, s.tree)
       IN Added(Section_new(SectionMap(param_map.ref), tree, Strip(labels[i]), NoCfn,
                            config_parser, TRUE))

\* EBSSettingsParam._init_from_file
EBSSettingsParam_init_from_file(param_map, tree, config_parser, opts) ==
  IF param_map.key \notin DOMAIN opts THEN SettingsParam_init_from_map(param_map, tree)
  ELSE LET text == opts[param_map.key]
       IN IF ~TextTruthy(text) THEN PRes(Ok(S(text)), "file", tree)
          ELSE EBSSettingsParam_labelled(
                 EBSSettingsParam_sections_from_file(param_map, text, 1, tree, config_parser),
                 S(text), "file")

\* the parameters of the related section that declare a CFN parameter
CfnParamIndexes(section_map) ==
  {j \in 1..Len(section_map.params) : section_map.params[j].cfn # ""}

\* one pass of the inner loop of EBSSettingsParam._init_from_cfn: the related
\* section at position index, or the IndexError of a list that is too short
EBSSettingsParam_related_section(section_map, param_key, cfn_params, index, base) ==
  LET short == {j \in CfnParamIndexes(section_map) :
                  Len(get_cfn_param(cfn_params, section_map.params[j].cfn)) < index + 1}
      Decoded(decoded) ==
        [st |-> "ok", err |-> NoErr,
         sec |-> [base EXCEPT !.params =
                    [key \in DOMAIN base.params |->
                       IF \E j \in DOMAIN decoded : section_map.params[j].key = key
                       THEN LET j == CHOOSE k \in DOMAIN decoded :
                                       section_map.params[k].key = key
                            IN Inst(decoded[j].value, decoded[j].via)
                       ELSE base.params[key]]],
         configured_params |->
           \E j \in DOMAIN decoded :
             ~PyEq(decoded[j].value, MapDefault(section_map.params[j]))]
  IN IF short # {}
     THEN [st |-> "crash", err |-> Err("IndexError", param_key, <<>>),
           sec |-> base, configured_params |-> FALSE]
     ELSE Decoded([j \in CfnParamIndexes(section_map) |->
                     Param_new("cluster", "", section_map.params[j], EmptyTree,
                               <<get_cfn_param(cfn_params,
                                               section_map.params[j].cfn)[index + 1]>>,
                               NoFile, NoCfn)])

\* the loop "for index in range(num_of_ebs)" of EBSSettingsParam._init_from_cfn
EBSSettingsParam_sections_from_cfn(param_map, cfn_params, index, num_of_ebs, tree) ==
  IF index >= num_of_ebs THEN SRes("ok", NoErr, None, tree)
  ELSE LET Decoded(rs) ==
             IF rs.st # "ok" THEN SRes(rs.st, rs.err, None, tree)
             ELSE EBSSettingsParam_sections_from_cfn(
                    param_map, cfn_params, index + 1, num_of_ebs,
                    IF rs.configured_params THEN add_section(tree, rs.sec) ELSE tree)
           Related(section_map) ==
             EBSSettingsParam_related_section(
               section_map, param_map.key, cfn_params, index,
               Section_new(section_map, tree, SynthLabel(param_map.ref, index),
                           NoCfn, NoFile, FALSE).sec)
       IN Decoded(Related(SectionMap(param_map.ref)))

\* an EBSSettingsParam._init_from_cfn that also decodes a single volume
EBSSettingsParam_init_from_cfn_from_one(param_map, tree, cfn_params) ==
  IF ~CfnGiven(cfn_params) THEN PRes(Ok(None), "cfn", tree)
  ELSE LET text == get_cfn_param(cfn_params, "NumberOfEBSVol")
       IN IF ~(Len(text) = 1 /\ IsIntText(text[1]))
          THEN PRes(Crash("ValueError", param_map.key, text), "cfn", tree)
          ELSE LET num_of_ebs == IntTable[text[1]]
               IN IF num_of_ebs > 0
                  THEN EBSSettingsParam_labelled(
                         EBSSettingsParam_sections_from_cfn(param_map, cfn_params, 0,
                                                            num_of_ebs, tree),
                         S([i \in 1..num_of_ebs |-> SynthLabel(param_map.ref, i - 1)]),
                         "cfn")
                  ELSE PRes(Ok(None), "cfn", tree)

\* EBSSettingsParam._init_from_cfn
EBSSettingsParam_init_from_cfn(param_map, tree, cfn_params) ==
  IF ~CfnGiven(cfn_params) THEN PRes(Ok(None), "cfn", tree)
  ELSE LET text == get_cfn_param(cfn_params, "NumberOfEBSVol")
       IN IF ~(Len(text) = 1 /\ IsIntText(text[1]))
          THEN PRes(Crash("ValueError", param_map.key, text), "cfn", tree)
          ELSE LET num_of_ebs == IntTable[text[1]]
               IN IF num_of_ebs > 1
                  THEN EBSSettingsParam_labelled(
                         EBSSettingsParam_sections_from_cfn(param_map, cfn_params, 0,
                                                            num_of_ebs, tree),
                         S([i \in 1..num_of_ebs |-> SynthLabel(param_map.ref, i - 1)]),
                         "cfn")
                  ELSE PRes(Ok(None), "cfn", tree)

\* Param.__init__ and the constructors that extend it: the Param instance
\* and the tree after the construction
Param_new(section_key, section_label, param_map, tree, cfn_value, config_parser, cfn_params) ==
  IF CfnGiven(cfn_params) \/ TextTruthy(cfn_value)
  THEN IF param_map.type = "EBSSettingsParam"
       THEN EBSSettingsParam_init_from_cfn(param_map, tree, cfn_params)
       ELSE IF param_map.type = "SettingsParam"
       THEN SettingsParam_init_from_cfn(param_map, tree, cfn_params)
       ELSE LET Decoded(c) == PRes(c.r, c.via, tree)
            IN Decoded(init_from_cfn(param_map, cfn_params, cfn_value))
  ELSE IF config_parser.some
  THEN LET section_name == get_file_section_name(section_key, section_label)
       IN IF section_name \notin DOMAIN config_parser.secs
          THEN PRes(Fatal("Section not found", section_key, <<section_label>>), "file", tree)
          ELSE LET opts == config_parser.secs[section_name]
               IN IF param_map.type = "EBSSettingsParam"
                  THEN EBSSettingsParam_init_from_file(param_map, tree, config_parser, opts)
                  ELSE IF param_map.type = "SettingsParam"
                  THEN SettingsParam_init_from_file(param_map, tree, config_parser, opts)
                  ELSE LET Read(f) ==
                             IF f.st = "NoOptionError"
                             THEN PRes(Param_init_from_map(param_map), "map", tree)
                             ELSE PRes(f, "file", tree)
                       IN Read(Param_init_from_file(param_map, opts))
  ELSE IF param_map.type \in SettingsTypes
  THEN SettingsParam_init_from_map(param_map, tree)
  ELSE PRes(Param_init_from_map(param_map), "map", tree)

\* a pass that hands the first item of the flattening slot to every parameter
init_param_first_item(section_map, section_key, section_label, inp, i, acc) ==
       LET param_map == section_map.params[i]
           not_valid_keys ==
             IF inp.mode = "file"
             THEN {key \in DOMAIN inp.config_parser.secs[
                              get_file_section_name(section_key, section_label)] :
                     ~HasParam(section_map, key)}
             ELSE {}
           Initialized(p) ==
             IF p.st # "ok"
             THEN [st |-> p.st, err |-> p.err, params |-> acc.params, tree |-> p.tree]
             ELSE IF not_valid_keys # {}
             THEN [st |-> "fatal",
                   err |-> Err("not allowed", section_key, SetToSeq(not_valid_keys)),
                   params |-> (param_map.key :> Inst(p.value, p.via)) @@ acc.params,
                   tree |-> p.tree]
             ELSE [st |-> "ok", err |-> NoErr,
                   params |-> (param_map.key :> Inst(p.value, p.via)) @@ acc.params,
                   tree |-> p.tree]
       IN Initialized(
            Param_new(section_key, section_label, param_map, acc.tree,
                      IF inp.mode # "cfn_values" THEN NoText
                      ELSE IF i <= Len(inp.cfn_values) THEN <<inp.cfn_values[1]>>
                      ELSE <<"NONE">>,
                      IF inp.mode = "file" THEN inp.config_parser ELSE NoFile,
                      IF inp.mode = "cfn_params" THEN inp.cfn_params ELSE NoCfn))

\* one pass of the loop over the schema's parameters of
\* Section._init_params_from_cfn / _init_params_from_file / _init_params_from_map;
\* acc is the section so far and the tree, inp the inputs
\* [mode, cfn_params, cfn_values, config_parser]
init_param(section_map, section_key, section_label, inp, i, acc) ==
       LET param_map == section_map.params[i]
           not_valid_keys ==
             IF inp.mode = "file"
             THEN {key \in DOMAIN inp.config_parser.secs[
                              get_file_section_name(section_key, section_label)] :
                     ~HasParam(section_map, key)}
             ELSE {}
           Initialized(p) ==
             IF p.st # "ok"
             THEN [st |-> p.st, err |-> p.err, params |-> acc.params, tree |-> p.tree]
             ELSE IF not_valid_keys # {}
             THEN [st |-> "fatal",
                   err |-> Err("not allowed", section_key, SetToSeq(not_valid_keys)),
                   params |-> (param_map.key :> Inst(p.value, p.via)) @@ acc.params,
                   tree |-> p.tree]
             ELSE [st |-> "ok", err |-> NoErr,
                   params |-> (param_map.key :> Inst(p.value, p.via)) @@ acc.params,
                   tree |-> p.tree]
       IN Initialized(
            Param_new(section_key, section_label, param_map, acc.tree,
                      IF inp.mode # "cfn_values" THEN NoText
                      ELSE IF i <= Len(inp.cfn_values) THEN <<inp.cfn_values[i]>>
                      ELSE <<"NONE">>,
                      IF inp.mode = "file" THEN inp.config_parser ELSE NoFile,
                      IF inp.mode = "cfn_params" THEN inp.cfn_params ELSE NoCfn))

\* the loop itself, over the positions lo..hi of the schema in order, until a
\* pass fails (the range is halved to keep the evaluation shallow)
init_params(section_map, section_key, section_label, inp, lo, hi, acc) ==
  IF lo > hi \/ acc.st # "ok" THEN acc
  ELSE IF lo = hi THEN init_param(section_map, section_key, section_label, inp, lo, acc)
  ELSE init_params(section_map, section_key, section_label, inp, (lo + hi) \div 2 + 1, hi,
                   init_params(section_map, section_key, section_label, inp,
                               lo, (lo + hi) \div 2, acc))

\* a Section.__init__ that tests config_parser before cfn_params
Section_init_mode_file_first(section_map, section_name, cfn_params, config_parser) ==
  IF config_parser.some /\ section_name \in DOMAIN config_parser.secs
  THEN "file"
  ELSE IF CfnGiven(cfn_params)
  THEN IF section_map.cfn # "" THEN "cfn_values" ELSE "cfn_params"
  ELSE "map"

\* the source Section.__init__ initializes the parameters from: the CFN
\* parameters if given (one per parameter, or one for the whole section),
\* else the file if given and holding the block, else the schema
Section_init_mode(section_map, section_name, cfn_params, config_parser) ==
  IF CfnGiven(cfn_params)
  THEN IF section_map.cfn # "" THEN "cfn_values" ELSE "cfn_params"
  ELSE IF config_parser.some /\ section_name \in DOMAIN config_parser.secs
  THEN "file"
  ELSE "map"

\* Section.__init__ (and ClusterSection._init_params_from_cfn, which takes
\* the label from the CLITemplate parameter)
Section_new(section_map, tree, section_label, cfn_params, config_parser, fail_on_absence) ==
  LET label0 == IF section_label # "" THEN section_label ELSE section_map.label
      label == IF CfnGiven(cfn_params) /\ section_map.type = "ClusterSection"
               THEN get_cfn_param(cfn_params, "CLITemplate")[1]
               ELSE label0
      section_name == get_file_section_name(section_map.key, label)
      acc0 == [st |-> "ok", err |-> NoErr, params |-> <<>>, tree |-> tree]
      mode == Section_init_mode(section_map, section_name, cfn_params, config_parser)
      inp == [mode |-> mode, cfn_params |-> cfn_params,
              cfn_values |-> IF mode = "cfn_values"
                             THEN get_cfn_param(cfn_params, section_map.cfn) ELSE <<>>,
              config_parser |-> config_parser]
      Initialized(acc) ==
        SRes(acc.st, acc.err,
             [key |-> section_map.key, label |-> label, params |-> acc.params],
             acc.tree)
  IN IF ~CfnGiven(cfn_params) /\ config_parser.some
        /\ section_name \notin DOMAIN config_parser.secs /\ fail_on_absence
     THEN SRes("fatal", Err("Section not found", section_map.key, <<label>>), None, tree)
     ELSE Initialized(init_params(section_map, section_map.key, label, inp,
                                  1, Len(section_map.params), acc0))

\* ------------------------------------------------------------------------
\* Encoding to CFN parameters
\* ------------------------------------------------------------------------

\* ",".join(items), each item a text
RECURSIVE Join(_)
Join(items) == IF items = <<>> THEN <<>> ELSE Head(items) \o Join(Tail(items))

\* [x] * n (the empty list when n <= 0)
Repeat(x, n) == [i \in 1..n |-> x]

\* Section.get_param_value on a section of the tree
get_param_value(section, param_key) == section.params[param_key].value

\* a get_cfn_value that has no sentinel: it writes str(None) for no value
get_cfn_value_no_sentinel(param_map, value) ==
  IF param_map.type \in CommaTypes
  THEN IF Truthy(value) THEN value.v
       ELSE IF param_map.dflt # None THEN Str(param_map.dflt) ELSE <<"None">>
  ELSE IF param_map.type \in BoolTypes
  THEN IF Truthy(IF value = None THEN get_default_value(param_map) ELSE value)
       THEN <<"true">> ELSE <<"false">>
  ELSE IF value # None THEN Str(value)
  ELSE IF param_map.dflt # None THEN Str(param_map.dflt) ELSE <<"None">>

\* get_cfn_value, by class
get_cfn_value(param_map, value) ==
  IF param_map.type \in CommaTypes
  THEN IF Truthy(value) THEN value.v
       ELSE IF param_map.dflt # None THEN Str(param_map.dflt) ELSE <<"NONE">>
  ELSE IF param_map.type \in BoolTypes
  THEN IF Truthy(IF value = None THEN get_default_value(param_map) ELSE value)
       THEN <<"true">> ELSE <<"false">>
  ELSE IF value # None THEN Str(value)
  ELSE IF param_map.dflt # None THEN Str(param_map.dflt) ELSE <<"NONE">>

\* Param.to_cfn (the base class)
Param_to_cfn(param_map, value) ==
  IF param_map.cfn # "" THEN (param_map.cfn :> get_cfn_value(param_map, value)) ELSE <<>>

\* SharedDirParam.to_cfn
SharedDirParam_to_cfn(param_map, value, tree) ==
  IF ~has_section(tree, "ebs", "")
  THEN (param_map.cfn :> get_cfn_value(param_map, value))
  ELSE <<>>

\* SpotPriceParam.to_cfn
SpotPriceParam_to_cfn(param_map, cluster_config) ==
  IF get_param_value(cluster_config, "scheduler") # A("awsbatch")
  THEN (param_map.cfn :> Str(get_param_value(cluster_config, "spot_price")))
  ELSE <<>>

\* SpotBidPercentageParam.to_cfn
SpotBidPercentageParam_to_cfn(param_map, cluster_config) ==
  IF get_param_value(cluster_config, "scheduler") = A("awsbatch")
  THEN (param_map.cfn :> Str(get_param_value(cluster_config, "spot_bid_percentage")))
  ELSE <<>>

\* a DesiredSizeParam.to_cfn that writes desired_vcpus whatever the scheduler
DesiredSizeParam_to_cfn_batch_branch(param_map, cluster_config) ==
  (param_map.cfn :> Str(get_param_value(cluster_config, "desired_vcpus")))

\* DesiredSizeParam.to_cfn
DesiredSizeParam_to_cfn(param_map, cluster_config) ==
  IF get_param_value(cluster_config, "scheduler") = A("awsbatch")
  THEN (param_map.cfn :> Str(get_param_value(cluster_config, "desired_vcpus")))
  ELSE (param_map.cfn :> Str(get_param_value(cluster_config, "initial_queue_size")))

\* a MaxSizeParam.to_cfn that writes the parameter's own value, as Param.to_cfn
MaxSizeParam_to_cfn_own_value(param_map, cluster_config) ==
  (param_map.cfn :> Str(get_param_value(cluster_config, param_map.key)))

\* MaxSizeParam.to_cfn
MaxSizeParam_to_cfn(param_map, cluster_config) ==
  IF get_param_value(cluster_config, "scheduler") = A("awsbatch")
  THEN (param_map.cfn :> Str(get_param_value(cluster_config, "max_vcpus")))
  ELSE (param_map.cfn :> Str(get_param_value(cluster_config, "max_queue_size")))

\* a MaintainInitialSizeParam.to_cfn that writes initial_queue_size always
MaintainInitialSizeParam_to_cfn_no_floor(param_map, cluster_config) ==
  IF get_param_value(cluster_config, "scheduler") # A("awsbatch")
  THEN (param_map.cfn :> Str(get_param_value(cluster_config, "initial_queue_size")))
  ELSE <<>>

\* MaintainInitialSizeParam.to_cfn
MaintainInitialSizeParam_to_cfn(param_map, cluster_config) ==
  IF get_param_value(cluster_config, "scheduler") # A("awsbatch")
  THEN (param_map.cfn :>
          IF Truthy(get_param_value(cluster_config, "maintain_initial_size"))
          THEN Str(get_param_value(cluster_config, "initial_queue_size"))
          ELSE <<"0">>)
  ELSE <<>>

\* MinSizeParam.to_cfn
MinSizeParam_to_cfn(param_map, cluster_config) ==
  IF get_param_value(cluster_config, "scheduler") = A("awsbatch")
  THEN (param_map.cfn :> Str(get_param_value(cluster_config, "min_vcpus")))
  ELSE <<>>

\* the value AdditionalIamPoliciesParam.to_cfn leaves in the parameter
AdditionalIamPoliciesParam_to_cfn_value(value, cluster_config) ==
  IF get_param_value(cluster_config, "scheduler") = A("awsbatch")
     /\ \A i \in 1..Len(value.v) : value.v[i] # aws_batch_iam_policy
  THEN L(Append(value.v, aws_batch_iam_policy))
  ELSE value

max_number_of_ebs_volumes == 5

\* the keys of the OrderedDict "sections" of EBSSettingsParam.to_cfn: the
\* labels as written in the value, each once, in the order of first occurrence
RECURSIVE DistinctInOrder(_)
DistinctInOrder(items) ==
  IF items = <<>> THEN <<>>
  ELSE LET front == DistinctInOrder(SubSeq(items, 1, Len(items) - 1))
           last == items[Len(items)]
       IN IF \E i \in 1..Len(front) : front[i] = last THEN front ELSE Append(front, last)

\* EBSSettingsParam.to_cfn: [st, err, out]
EBSSettingsParam_to_cfn(param_map, value, tree) ==
  LET labels == IF Truthy(value) THEN DistinctInOrder(value.v) ELSE <<>>
      number_of_ebs_sections == Len(labels)
      missing == {i \in 1..Len(labels) : ~has_section(tree, param_map.ref, Strip(labels[i]))}
      Encoded(section_map) ==
        LET slots == {j \in CfnParamIndexes(section_map) :
                        ~(number_of_ebs_sections = 0
                          /\ section_map.params[j].key = "shared_dir")}
            cfn_value_list(j) ==
              [i \in 1..Len(labels) |->
                 Param_to_cfn(section_map.params[j],
                              get_param_value(
                                get_section(tree, param_map.ref, Strip(labels[i])),
                                section_map.params[j].key))[section_map.params[j].cfn]]
              \o Repeat(Param_to_cfn(section_map.params[j],
                                     get_default_value(section_map.params[j])
                                    )[section_map.params[j].cfn],
                        max_number_of_ebs_volumes - number_of_ebs_sections)
        IN IF missing # {} /\ CfnParamIndexes(section_map) # {}
           THEN [st |-> "crash", err |-> Err("AttributeError", param_map.key, <<>>),
                 out |-> <<>>]
           ELSE [st |-> "ok", err |-> NoErr,
                 out |-> ("NumberOfEBSVol" :>
                            <<StrInt(IF number_of_ebs_sections > 1
                                     THEN number_of_ebs_sections ELSE 1)>>)
                         @@ [slot \in {section_map.params[j].cfn : j \in slots} |->
                               LET j == CHOOSE k \in slots : section_map.params[k].cfn = slot
                               IN Join(cfn_value_list(j))]]
  IN Encoded(SectionMap(param_map.ref))

\* pcluster.utils.get_efs_mount_target_id is an external lookup: mount_target
\* says whether it finds a mount target

\* the order in which a section yields its parameters: the declaration
\* order, or, for a plain dict (an interpreter whose dicts are unordered),
\* another; the sections kept in one CFN parameter are OrderedDicts
ParamOrder(section_map, order) ==
  IF order = "reverse" /\ section_map.cfn = ""
  THEN [i \in 1..Len(section_map.params) |-> Len(section_map.params) + 1 - i]
  ELSE [i \in 1..Len(section_map.params) |-> i]

Orders == {"schema", "reverse"}

\* cfn_items that keep the other items when the first one is the sentinel
cfn_items_no_collapse(section_map, section) ==
  [i \in 1..Len(section_map.params) |->
     get_cfn_value(section_map.params[i],
                   get_param_value(section, section_map.params[i].key))]

\* the cfn_items of Section.to_cfn for a section kept in one CFN parameter
cfn_items(section_map, section) ==
  LET items == [i \in 1..Len(section_map.params) |->
                  get_cfn_value(section_map.params[i],
                                get_param_value(section, section_map.params[i].key))]
  IN IF items[1] = <<"NONE">>
     THEN [i \in 1..Len(section_map.params) |-> <<"NONE">>]
     ELSE items

RECURSIVE Section_to_cfn(_, _, _, _)
RECURSIVE to_cfn_params(_, _, _, _, _, _)

\* SettingsParam.to_cfn
SettingsParam_to_cfn(param_map, value, tree, order, mount_target) ==
  LET label == IF Truthy(value) THEN value.v[1] ELSE ""
      Encoded(s) == Section_to_cfn(s.sec, s.tree, order, mount_target)
  IN Encoded(IF has_section(tree, param_map.ref, label)
             THEN [sec |-> get_section(tree, param_map.ref, label), tree |-> tree]
             ELSE Section_new(SectionMap(param_map.ref), tree, "", NoCfn, NoFile, FALSE))

\* one pass of the loop of Section.to_cfn over the parameters of a section
\* with one CFN parameter each; acc is [st, err, out, sec, tree]
to_cfn_param(section_map, seq, i, acc, env) ==
       LET param_map == section_map.params[seq[i]]
           value == get_param_value(acc.sec, param_map.key)
           cluster_config == get_section(acc.tree, acc.sec.key, "")
           id == <<acc.sec.key, acc.sec.label>>
           Updated(r) == [acc EXCEPT !.st = r.st, !.err = r.err, !.out = r.out @@ acc.out]
       IN CASE param_map.type = "SettingsParam" ->
                 Updated(SettingsParam_to_cfn(param_map, value, acc.tree, env.order,
                                              env.mount_target))
            [] param_map.type = "EBSSettingsParam" ->
                 Updated(EBSSettingsParam_to_cfn(param_map, value, acc.tree))
            [] param_map.type = "AdditionalIamPoliciesParam" ->
                 LET v == AdditionalIamPoliciesParam_to_cfn_value(value, cluster_config)
                     sec == [acc.sec EXCEPT !.params[param_map.key].value = v]
                 IN [acc EXCEPT !.out = Param_to_cfn(param_map, v) @@ acc.out,
                                !.sec = sec,
                                !.tree = IF id \in DOMAIN acc.tree
                                         THEN [acc.tree EXCEPT ![id] = sec]
                                         ELSE acc.tree]
            [] OTHER ->
                 LET out ==
                       CASE param_map.type = "SharedDirParam" ->
                              SharedDirParam_to_cfn(param_map, value, acc.tree)
                         [] param_map.type = "SpotPriceParam" ->
                              SpotPriceParam_to_cfn(param_map, cluster_config)
                         [] param_map.type = "SpotBidPercentageParam" ->
                              SpotBidPercentageParam_to_cfn(param_map, cluster_config)
                         [] param_map.type = "DesiredSizeParam" ->
                              DesiredSizeParam_to_cfn(param_map, cluster_config)
                         [] param_map.type = "MaxSizeParam" ->
                              MaxSizeParam_to_cfn(param_map, cluster_config)
                         [] param_map.type = "MaintainInitialSizeParam" ->
                              MaintainInitialSizeParam_to_cfn(param_map, cluster_config)
                         [] param_map.type = "MinSizeParam" ->
                              MinSizeParam_to_cfn(param_map, cluster_config)
                         [] OTHER -> Param_to_cfn(param_map, value)
                 IN [acc EXCEPT !.out = out @@ acc.out]

\* the loop itself, over the positions lo..hi of the order seq, until a pass
\* fails (the range is halved to keep the evaluation shallow)
to_cfn_params(section_map, seq, lo, hi, acc, env) ==
  IF lo > hi \/ acc.st # "ok" THEN acc
  ELSE IF lo = hi THEN to_cfn_param(section_map, seq, lo, acc, env)
  ELSE to_cfn_params(section_map, seq, (lo + hi) \div 2 + 1, hi,
                     to_cfn_params(section_map, seq, lo, (lo + hi) \div 2, acc, env), env)

\* Section.to_cfn, EFSSection.to_cfn and ClusterSection.to_cfn:
\* [st, err, out, sec, tree]
Section_to_cfn(section, tree, order, mount_target) ==
  LET acc0 == [st |-> "ok", err |-> NoErr, out |-> <<>>, sec |-> section, tree |-> tree]
      Packed(section_map, items) ==
        [acc0 EXCEPT !.out =
           (section_map.cfn :>
              Join(IF section_map.type = "EFSSection"
                   THEN Append(items, IF items[1] # <<"NONE">> /\ mount_target
                                      THEN <<"Valid">> ELSE <<"NONE">>)
                   ELSE items))]
      Labelled(section_map, acc) ==
        IF section_map.type = "ClusterSection" /\ acc.st = "ok"
        THEN [acc EXCEPT !.out = ("CLITemplate" :> <<section.label>>) @@ acc.out]
        ELSE acc
      Encoded(section_map) ==
        IF section_map.type = "EFSSection" \/ section_map.cfn # ""
        THEN Packed(section_map, cfn_items(section_map, section))
        ELSE Labelled(section_map,
                      to_cfn_params(section_map, ParamOrder(section_map, order),
                                    1, Len(section_map.params), acc0,
                                    [order |-> order, mount_target |-> mount_target]))
  IN Encoded(SectionMap(section.key))

\* ------------------------------------------------------------------------
\* Encoding to the file (a ConfigParser: block name -> (key -> text))
\* ------------------------------------------------------------------------

\* ConfigParser.add_section, DuplicateSectionError caught by the caller
cp_add_section(secs, name) == IF name \in DOMAIN secs THEN secs ELSE (name :> <<>>) @@ secs

\* ConfigParser.set on a block that exists
cp_set(secs, name, key, text) == [secs EXCEPT ![name] = (key :> text) @@ secs[name]]

\* ConfigParser.remove_option, NoSectionError caught by the caller
cp_remove_option(secs, name, key) ==
  IF name \in DOMAIN secs
  THEN [secs EXCEPT ![name] = [k \in (DOMAIN secs[name]) \ {key} |-> secs[name][k]]]
  ELSE secs

\* the outcome of a to_file step: [st, err, secs]
FRes(st, err, secs) == [st |-> st, err |-> err, secs |-> secs]

\* config_parser.set(section_name, key, text): NoSectionError when the block is absent
cp_set_or_raise(secs, name, key, text) ==
  IF name \in DOMAIN secs THEN FRes("ok", NoErr, cp_set(secs, name, key, text))
  ELSE FRes("crash", Err("NoSectionError", key, <<>>), secs)

\* Param.to_file (the base class)
Param_to_file(param_map, value, section_name, secs) ==
  IF value # None /\ ~PyEq(value, get_default_value(param_map))
  THEN cp_set_or_raise(secs, section_name, param_map.key, Str(value))
  ELSE FRes("ok", NoErr, cp_remove_option(secs, section_name, param_map.key))

\* CommaSeparatedParam.to_file
CommaSeparatedParam_to_file(param_map, value, section_name, secs) ==
  IF value # None /\ ~PyEq(value, get_default_value(param_map))
  THEN cp_set_or_raise(secs, section_name, param_map.key, value.v)
  ELSE FRes("ok", NoErr, cp_remove_option(secs, section_name, param_map.key))

\* BoolParam.to_file
BoolParam_to_file(param_map, value, section_name, secs) ==
  IF ~PyEq(value, get_default_value(param_map))
  THEN cp_set_or_raise(secs, section_name, param_map.key, get_cfn_value(param_map, value))
  ELSE FRes("ok", NoErr, cp_remove_option(secs, section_name, param_map.key))

\* SharedDirParam.to_file
SharedDirParam_to_file(param_map, value, section_name, secs, tree) ==
  IF ~has_section(tree, "ebs", "") /\ ~PyEq(value, get_default_value(param_map))
  THEN IF value.ty = "str"
       THEN cp_set_or_raise(secs, section_name, param_map.key, value.v)
       ELSE FRes("crash", Err("TypeError", param_map.key, <<>>), secs)
  ELSE FRes("ok", NoErr, secs)

\* the value AdditionalIamPoliciesParam.to_file leaves in the parameter
AdditionalIamPoliciesParam_to_file_value(value) == L(ListRemove(value.v, aws_batch_iam_policy))

\* EBSSettingsParam.to_file: sections.update() is given a Section (or None),
\* not a mapping, and raises TypeError for the first label of the value
EBSSettingsParam_to_file(param_map, value, secs) ==
  IF Truthy(value)
  THEN FRes("crash", Err("TypeError", param_map.key, value.v), secs)
  ELSE FRes("ok", NoErr, secs)

RECURSIVE Section_to_file(_, _, _, _)
RECURSIVE to_file_params(_, _, _, _, _)

\* SettingsParam.to_file: [st, err, secs, tree]
SettingsParam_to_file(param_map, value, section_name, acc, order) ==
  LET label == IF Truthy(value) THEN value.v[1] ELSE ""
      Differs(related_map, section) ==
        \E j \in 1..Len(related_map.params) :
          ~PyEq(get_param_value(section, related_map.params[j].key),
                MapDefault(related_map.params[j]))
  IN IF ~has_section(acc.tree, param_map.ref, label) THEN acc
     ELSE LET section == get_section(acc.tree, param_map.ref, label)
              differs == Differs(SectionMap(param_map.ref), section)
              secs1 == IF differs THEN cp_add_section(acc.secs, section_name) ELSE acc.secs
          IN IF differs /\ value.ty # "str"
             THEN [acc EXCEPT !.st = "crash", !.err = Err("TypeError", param_map.key, <<>>)]
             ELSE Section_to_file(section,
                                  [acc EXCEPT !.secs =
                                     IF differs
                                     THEN cp_set(secs1, section_name, param_map.key, value.v)
                                     ELSE secs1],
                                  order, FALSE)

\* one pass of the loop of Section.to_file; acc is
\* [st, err, secs, tree, sec, created, order]
to_file_param(section_map, seq, i, acc) ==
       LET param_map == section_map.params[seq[i]]
           value == get_param_value(acc.sec, param_map.key)
           section_name == get_file_section_name(acc.sec.key, acc.sec.label)
           id == <<acc.sec.key, acc.sec.label>>
           create == ~acc.created /\ ~PyEq(value, MapDefault(param_map))
           a1 == [acc EXCEPT !.secs = IF create THEN cp_add_section(acc.secs, section_name)
                                      ELSE acc.secs,
                             !.created = acc.created \/ create]
           step(r) == [a1 EXCEPT !.st = r.st, !.err = r.err, !.secs = r.secs]
           Related(r) ==
             [a1 EXCEPT !.st = r.st, !.err = r.err, !.secs = r.secs, !.tree = r.tree]
       IN CASE param_map.type = "SettingsParam" ->
                 Related(SettingsParam_to_file(param_map, value, section_name,
                                               [st |-> a1.st, err |-> a1.err, secs |-> a1.secs,
                                                tree |-> a1.tree], a1.order))
            [] param_map.type = "EBSSettingsParam" ->
                 step(EBSSettingsParam_to_file(param_map, value, a1.secs))
            [] param_map.type = "AdditionalIamPoliciesParam" ->
                 LET v == AdditionalIamPoliciesParam_to_file_value(value)
                     sec == [a1.sec EXCEPT !.params[param_map.key].value = v]
                     r == Param_to_file(param_map, v, section_name, a1.secs)
                 IN [a1 EXCEPT !.st = r.st, !.err = r.err, !.secs = r.secs,
                               !.sec = sec,
                               !.tree = IF id \in DOMAIN a1.tree
                                        THEN [a1.tree EXCEPT ![id] = sec]
                                        ELSE a1.tree]
            [] param_map.type = "AvailabilityZoneParam" -> a1
            [] param_map.type = "SharedDirParam" ->
                 step(SharedDirParam_to_file(param_map, value, section_name, a1.secs, a1.tree))
            [] param_map.type \in BoolTypes ->
                 step(BoolParam_to_file(param_map, value, section_name, a1.secs))
            [] param_map.type = "CommaSeparatedParam" ->
                 step(CommaSeparatedParam_to_file(param_map, value, section_name, a1.secs))
            [] OTHER ->
                 step(Param_to_file(param_map, value, section_name, a1.secs))

\* the loop itself, over the positions lo..hi of the order seq, until a pass
\* fails (the range is halved to keep the evaluation shallow)
to_file_params(section_map, seq, lo, hi, acc) ==
  IF lo > hi \/ acc.st # "ok" THEN acc
  ELSE IF lo = hi THEN to_file_param(section_map, seq, lo, acc)
  ELSE to_file_params(section_map, seq, (lo + hi) \div 2 + 1, hi,
                      to_file_params(section_map, seq, lo, (lo + hi) \div 2, acc))

\* Section.to_file: [st, err, secs, tree]; acc is [st, err, secs, tree]
Section_to_file(section, acc, order, unused) ==
  LET Written(r) == [st |-> r.st, err |-> r.err, secs |-> r.secs, tree |-> r.tree]
      Params(section_map) ==
        to_file_params(section_map, ParamOrder(section_map, order), 1, Len(section_map.params),
                       [st |-> acc.st, err |-> acc.err, secs |-> acc.secs, tree |-> acc.tree,
                        sec |-> section, created |-> FALSE, order |-> order])
  IN Written(Params(SectionMap(section.key)))

\* ------------------------------------------------------------------------
\* Validation. A validator answers [errors, warnings], two lists of messages;
\* answers maps the key of a parameter (or of a section, for its own
\* validator) to the answer its validator gives. The outcome of a step is
\* [st, err, reported], reported the messages utils.error (when it does not
\* exit) and utils.warn have printed so far, as [level, key, lines].
\* ------------------------------------------------------------------------

\* pcluster.utils.error(message, fail_on_error): exits, or prints the message
error(acc, key, lines, fail_on_error) ==
  IF fail_on_error
  THEN [acc EXCEPT !.st = "fatal", !.err = Err("invalid value", key, lines)]
  ELSE [acc EXCEPT !.reported = Append(@, [level |-> "error", key |-> key, lines |-> lines])]

\* pcluster.utils.warn(message): prints the message
warn(acc, key, lines) ==
  [acc EXCEPT !.reported = Append(@, [level |-> "warning", key |-> key, lines |-> lines])]

\* validation_func(key, value, pcluster_config): the (errors, warnings) the
\* validator answers; one that is not drawn to complain finds nothing
validation_func(answers, key) ==
  IF key \in DOMAIN answers THEN answers[key] ELSE [errors |-> <<>>, warnings |-> <<>>]

\* the validator of a key is invoked: acc.called lists the invocations
call(acc, key) == [acc EXCEPT !.called = Append(@, key)]

\* Param.validate
Param_validate(param_map, value, answers, fail_on_error, acc) ==
  IF param_map.validator = "" THEN acc
  ELSE IF value = None THEN acc
  ELSE IF validation_func(answers, param_map.key).errors # <<>>
  THEN error(call(acc, param_map.key), param_map.key,
             validation_func(answers, param_map.key).errors, fail_on_error)
  ELSE IF validation_func(answers, param_map.key).warnings # <<>>
  THEN warn(call(acc, param_map.key), param_map.key,
            validation_func(answers, param_map.key).warnings)
  ELSE call(acc, param_map.key)

RECURSIVE validate_params(_, _, _, _, _, _, _, _)
\* the loop of Section.validate over the positions lo..hi of the order seq,
\* until a pass exits (the range is halved to keep the evaluation shallow)
validate_params(section_map, section, answers, fail_on_error, seq, lo, hi, acc) ==
  IF lo > hi \/ acc.st # "ok" THEN acc
  ELSE IF lo = hi
  THEN Param_validate(section_map.params[seq[lo]],
                      get_param_value(section, section_map.params[seq[lo]].key),
                      answers, fail_on_error, acc)
  ELSE validate_params(section_map, section, answers, fail_on_error, seq,
                       (lo + hi) \div 2 + 1, hi,
                       validate_params(section_map, section, answers, fail_on_error, seq,
                                       lo, (lo + hi) \div 2, acc))

\* Section.validate: the validator of the section, then every parameter, in
\* the order the params of the schema are iterated in
Section_validate(section, answers, fail_on_error, order) ==
  LET acc0 == [st |-> "ok", err |-> NoErr, reported |-> <<>>, called |-> <<>>]
      Validated(section_map) ==
        validate_params(section_map, section, answers, fail_on_error,
                        ParamOrder(section_map, order), 1, Len(section_map.params),
                        IF section_map.validator = "" THEN acc0
                        ELSE IF validation_func(answers, section.key).errors # <<>>
                        THEN error(call(acc0, section.key), section.key,
                                   validation_func(answers, section.key).errors, fail_on_error)
                        ELSE IF validation_func(answers, section.key).warnings # <<>>
                        THEN warn(call(acc0, section.key), section.key,
                                  validation_func(answers, section.key).warnings)
                        ELSE call(acc0, section.key))
  IN Validated(SectionMap(section.key))

\* ------------------------------------------------------------------------
\* The inputs the model explores
\* ------------------------------------------------------------------------

\* most labelled volume blocks a file lists in ebs_settings
MaxFileVols == 6

\* largest NumberOfEBSVol of a deployment mapping
MaxCfnVols == 3

\* the key -> text pairs of a block, merged (the left one wins)
Opts(a, b) == a @@ b

NoOpts == <<>>

\* the scheduler line of a [cluster] block
SchedulerOpts(scheduler) ==
  IF scheduler = "" THEN NoOpts ELSE ("scheduler" :> <<scheduler>>)

SizeProfiles == {"none", "traditional", "floorless", "awsbatch", "both"}

\* the size and price lines of a [cluster] block
SizeOpts(profile) ==
  LET traditional == ("initial_queue_size" :> <<"7">>) @@ ("max_queue_size" :> <<"20">>)
                     @@ ("spot_price" :> <<"0.5">>)
      floor == ("maintain_initial_size" :> <<"true">>)
      batch == ("desired_vcpus" :> <<"5">>) @@ ("max_vcpus" :> <<"50">>)
               @@ ("min_vcpus" :> <<"2">>) @@ ("spot_bid_percentage" :> <<"50">>)
  IN CASE profile = "traditional" -> Opts(traditional, floor)
       [] profile = "floorless" -> traditional
       [] profile = "awsbatch" -> batch
       [] profile = "both" -> Opts(Opts(traditional, floor), batch)
       [] OTHER -> NoOpts

\* a file holding one [cluster default] block
ClusterFile(opts) == File((<<"cluster", "default">> :> opts))

\* the [ebs <label>] block of the i-th volume: odd ones change a field
VolumeOpts(i) == IF i % 2 = 1 THEN ("volume_size" :> <<"50">>) ELSE NoOpts

\* a file whose cluster lists n volume labels, each with its block
VolumesFile(n) ==
  File((<<"cluster", "default">> :>
          ("ebs_settings" :> [i \in 1..n |-> SynthLabel("ebs", i - 1)]))
       @@ [id \in {<<"ebs", SynthLabel("ebs", i - 1)>> : i \in 1..n} |->
             VolumeOpts(CHOOSE i \in 1..n : SynthLabel("ebs", i - 1) = id[2])])

\* files that list volume labels with white space, twice, or without a block
OddVolumesFiles ==
  { File((<<"cluster", "default">> :> ("ebs_settings" :> <<"ebs1", " ebs2">>))
         @@ (<<"ebs", "ebs1">> :> VolumeOpts(1)) @@ (<<"ebs", "ebs2">> :> VolumeOpts(2))),
    File((<<"cluster", "default">> :> ("ebs_settings" :> <<"ebs1", " ebs1">>))
         @@ (<<"ebs", "ebs1">> :> VolumeOpts(1))),
    File((<<"cluster", "default">> :> ("ebs_settings" :> <<"ebs1">>))) }

\* a file that sets a parameter without a CFN slot and both size branches
BlendFile ==
  ClusterFile(Opts(("template_url" :> <<"http://t">>),
                   Opts(SchedulerOpts("awsbatch"), SizeOpts("both"))))

\* a file whose cluster refers to one block of another kind of section
RelatedFile(settings_key, kind, label, opts) ==
  File((<<"cluster", "default">> :> (settings_key :> <<label>>)) @@ (<<kind, label>> :> opts))

\* files that give a value to parameters with allowed_values
AllowedFiles ==
  {ClusterFile(("base_os" :> <<os>>)) : os \in {"centos7", "windows"}}
  \cup {RelatedFile("vpc_settings", "vpc", "public", ("additional_sg" :> <<sg>>)) :
          sg \in {"sg-12345678", "sg-bad"}}
  \cup {RelatedFile("efs_settings", "efs", "customfs", ("efs_fs_id" :> <<fs>>)) :
          fs \in {"fs-12345678", "fs-12345678901234567-bad", "fs-bad"}}
  \cup {RelatedFile("raid_settings", "raid", "rs", ("shared_dir" :> <<"/raid">>)
                                                   @@ ("raid_type" :> <<level>>)) :
          level \in {"1", "2"}}

\* files with lines whose key the schema of the block does not declare; the
\* last one also gives a disallowed value to the first parameter of the block
UndeclaredFiles ==
  {ClusterFile(Opts(SchedulerOpts("slurm"), ("bogus" :> <<"1">>))),
   ClusterFile(("bogus" :> <<"1">>) @@ ("extra" :> <<"2">>)),
   RelatedFile("vpc_settings", "vpc", "public",
               ("additional_sg" :> <<"sg-12345678">>) @@ ("bogus" :> <<"1">>)),
   RelatedFile("vpc_settings", "vpc", "public",
               ("vpc_id" :> <<"vpc-bad">>) @@ ("bogus" :> <<"1">>))}

\* files that give a typed parameter a text its type cannot be read from
NonCoercibleFiles ==
  {ClusterFile(("master_root_volume_size" :> <<"abc">>)),
   ClusterFile(("spot_price" :> <<"abc">>)),
   ClusterFile(("encrypted_ephemeral" :> <<"maybe">>)),
   ClusterFile(("extra_json" :> <<"{">>))}

\* files whose settings lines have no value, name a label that has no block,
\* or name two labels
SettingsFiles ==
  {ClusterFile(("vpc_settings" :> <<"">>)),
   ClusterFile(("vpc_settings" :> <<"public">>)),
   ClusterFile(("efs_settings" :> <<"customfs">>)),
   ClusterFile(("ebs_settings" :> <<"ebs1">>)),
   File((<<"cluster", "default">> :> ("vpc_settings" :> <<"public", "private">>))
        @@ (<<"vpc", "public">> :> NoOpts) @@ (<<"vpc", "private">> :> NoOpts)),
   RelatedFile("scaling_settings", "scaling", "custom", ("scaledown_idletime" :> <<"20">>))}

\* files whose cluster block lists one policy, and two with blanks around
PolicyFiles ==
  {ClusterFile(("additional_iam_policies" :> <<"p1">>)),
   ClusterFile(("additional_iam_policies" :> <<"p1", " p2">>))}

FileInputs ==
  {ClusterFile(Opts(SchedulerOpts(s), SizeOpts(p))) :
     s \in {"", "slurm", "awsbatch"}, p \in SizeProfiles}
  \cup {VolumesFile(n) : n \in 1..MaxFileVols}
  \cup OddVolumesFiles
  \cup {BlendFile}
  \cup AllowedFiles
  \cup UndeclaredFiles
  \cup NonCoercibleFiles
  \cup SettingsFiles
  \cup PolicyFiles

\* the per-volume slots of a deployment mapping: the volumes in custom carry
\* their own directory and size, the others the sentinel; width entries each
VolumeSlots(custom, width) ==
  [slot \in {section_map_param.cfn : section_map_param \in
               {EBS.params[j] : j \in 1..Len(EBS.params)}} |->
     [i \in 1..width |->
        IF i \in custom /\ slot = "SharedDir" THEN "/vol"
        ELSE IF i \in custom /\ slot = "VolumeSize" THEN "50"
        ELSE "NONE"]]

\* a deployment mapping of a cluster
Cfn(scheduler, min_size, spot_price, num_of_ebs, custom, width) ==
  ("CLITemplate" :> <<"default">>) @@ ("Scheduler" :> <<scheduler>>)
  @@ ("DesiredSize" :> <<"7">>) @@ ("MaxSize" :> <<"20">>)
  @@ ("MinSize" :> <<min_size>>) @@ ("SpotPrice" :> <<spot_price>>)
  @@ (IF num_of_ebs = "" THEN <<>> ELSE ("NumberOfEBSVol" :> <<num_of_ebs>>))
  @@ VolumeSlots(custom, width)

\* the mapping of a cluster with one more slot
CfnWith(slot, text) ==
  (slot :> text) @@ Cfn("slurm", "0", "0.5", "1", {}, max_number_of_ebs_volumes)

\* mappings whose slot of a parameter with allowed_values holds a text that
\* is, and one that is not, among them
AllowedCfns == {CfnWith("BaseOS", <<os>>) : os \in {"centos7", "windows"}}

\* mappings whose slot of a typed parameter holds such a text
NonCoercibleCfns ==
  {CfnWith("MasterRootVolumeSize", <<"abc">>), CfnWith("EncryptedEphemeral", <<"maybe">>),
   CfnWith("ExtraJson", <<"{">>)}

\* mappings whose flattening slot lists every parameter of the section, stops
\* short, leaves a position empty, or is the sentinel alone
FlatCfns ==
  {CfnWith("RAIDOptions", <<"/raid", "1", "2", "io1", "50", "100", "true", "key-1">>),
   CfnWith("RAIDOptions", <<"/raid", "0">>),
   CfnWith("RAIDOptions", <<"/raid", "", "2", "NONE", "50">>),
   CfnWith("RAIDOptions", <<"NONE">>),
   CfnWith("RAIDOptions", <<"NONE", "1", "2">>),
   CfnWith("EFSOptions", <<"/efs", "fs-12345678", "maxIO", "NONE", "0.5", "true", "provisioned">>),
   CfnWith("FSXOptions", <<"/fsx", "NONE", "3", "NONE", "NONE", "NONE", "s3://bucket">>)}

\* mappings whose policies slot is empty, and lists two policies
PolicyCfns ==
  {CfnWith("EC2IAMPolicies", <<"">>), CfnWith("EC2IAMPolicies", <<"p1", " p2">>)}

\* mappings whose MinSize equals DesiredSize, and whose sizes are other ones
SizeCfns ==
  {CfnWith("MinSize", <<"7">>),
   ("DesiredSize" :> <<"5">>) @@ ("MaxSize" :> <<"10">>)
     @@ Cfn("awsbatch", "2", "50.0", "1", {}, max_number_of_ebs_volumes),
   ("DesiredSize" :> <<"0">>) @@ ("MaxSize" :> <<"10">>)
     @@ Cfn("sge", "2", "0.5", "1", {}, max_number_of_ebs_volumes)}

CfnInputs ==
  {Cfn(s, mn, sp, "1", {}, max_number_of_ebs_volumes) :
     s \in {"slurm", "awsbatch", "sge"}, mn \in {"0", "3", "NONE"}, sp \in {"0.5", "50.0"}}
  \cup SizeCfns
  \cup AllowedCfns
  \cup NonCoercibleCfns
  \cup FlatCfns
  \cup PolicyCfns
  \cup {Cfn("slurm", "0", "NONE", "1", {}, max_number_of_ebs_volumes),
        Cfn("slurm", "0", "0.5", "", {}, max_number_of_ebs_volumes),
        Cfn("slurm", "0", "0.5", "0", {}, max_number_of_ebs_volumes),
        Cfn("slurm", "0", "0.5", "3", {1}, 2)}
  \cup {Cfn("slurm", "0", "0.5", StrInt(c), custom, max_number_of_ebs_volumes) :
          c \in 1..MaxCfnVols, custom \in SUBSET (1..MaxCfnVols)}

\* a file whose cluster block keeps lines of an earlier configuration
StaleFile ==
  ClusterFile(("shared_dir" :> <<"/old">>) @@ ("base_os" :> <<"centos7">>)
              @@ ("enable_efa" :> <<"compute">>) @@ ("ephemeral_dir" :> <<"/scratch">>))

\* the mapping of a cluster deployed with the default shared directory
StaleCfn ==
  ("SharedDir" :> <<"/shared">>) @@ Cfn("slurm", "3", "0.5", "1", {}, max_number_of_ebs_volumes)

\* what a validator can answer: no message, errors, warnings, or both
Answers ==
  {[errors |-> e, warnings |-> w] : e \in {<<>>, <<"bad">>}, w \in {<<>>, <<"odd">>}}

Valid == [errors |-> <<>>, warnings |-> <<>>]

\* the keys the validators may complain about: a section, a parameter that
\* is not set unless the input sets it, two that always hold a value, and
\* one that has no validator
FlaggedKeys == {"cluster", "key_name", "scheduler", "compute_instance_type", "base_os"}

\* the answers of the validators that complain: none, one, or two of them
AnswerInputs ==
  {<<>>}
  \cup {(key :> a) : key \in FlaggedKeys, a \in Answers \ {Valid}}
  \cup {("scheduler" :> a) @@ ("compute_instance_type" :> b) :
          a \in Answers \ {Valid}, b \in Answers \ {Valid}}

\* a mapping and a file handed to the constructor together
BlendInputs ==
  {<<Cfn(s, "3", "0.5", "1", {}, max_number_of_ebs_volumes), BlendFile>> :
     s \in {"slurm", "awsbatch"}}
  \cup {<<StaleCfn, StaleFile>>}

\* ------------------------------------------------------------------------
\* The state machine: a section is constructed from its inputs and the tree
\* it belongs to is then encoded to deployment form and to the file
\* ------------------------------------------------------------------------

VARIABLES
  cfn_params,       \* the cfn_params handed to Section.__init__
  config_parser,    \* the config_parser handed to Section.__init__
  pcluster_config,  \* the tree the sections are added to
  section,          \* [key, label] of the section constructed, << >> before
  result,           \* [op, st, err, order]: the last operation, how it ended
                    \* and the order in which it went through the parameters
  cfn_out,          \* what the last to_cfn returned
  file_before,      \* the blocks of the parser handed to the last to_file
  file_out,         \* the blocks of that parser after it
  validation,       \* [fail_on_error, answers, called] of the last validate: the
                    \* validators invoked, in order; << >> before
  reported          \* the messages the last validate printed

vars == <<cfn_params, config_parser, pcluster_config, section, result,
          cfn_out, file_before, file_out, validation, reported>>

Init ==
  /\ cfn_params = NoCfn
  /\ config_parser = NoFile
  /\ pcluster_config = EmptyTree
  /\ section = <<>>
  /\ result = [op |-> "none", st |-> "ok", err |-> NoErr, order |-> ""]
  /\ cfn_out = <<>>
  /\ file_before = <<>>
  /\ file_out = <<>>
  /\ validation = <<>>
  /\ reported = <<>>

\* Section.__init__ with the given inputs, then PclusterConfig.add_section
Construct(kind, cfn, file) ==
  /\ result.op = "none"
  /\ \E s \in {Section_new(SectionMap(kind), EmptyTree, "", cfn, file, FALSE)} :
        /\ cfn_params' = cfn
        /\ config_parser' = file
        /\ result' = [op |-> "init", st |-> s.st, err |-> s.err, order |-> ""]
        /\ pcluster_config' = IF s.st = "ok" THEN add_section(s.tree, s.sec) ELSE s.tree
        /\ section' = IF s.st = "ok" THEN [key |-> s.sec.key, label |-> s.sec.label] ELSE <<>>
        /\ file_out' = file.secs
  /\ UNCHANGED <<cfn_out, file_before, validation, reported>>

\* construction from the schema defaults alone, for every kind of section
ConstructFromMap == \E kind \in SectionKinds : Construct(kind, NoCfn, NoFile)

\* construction of the cluster from a file
ConstructFromFile == \E file \in FileInputs : Construct("cluster", NoCfn, file)

\* construction of the cluster from a deployment mapping
ConstructFromCfn == \E cfn \in CfnInputs : Construct("cluster", cfn, NoFile)

\* construction of the cluster with a deployment mapping and a file
ConstructFromBoth == \E both \in BlendInputs : Construct("cluster", both[1], both[2])

\* the section constructed, as the tree holds it
TheSection == get_section(pcluster_config, section.key, section.label)

Constructed == section # <<>> /\ result.st = "ok"

\* Section.__init__ has just returned
JustBuilt == Constructed /\ result.op = "init"

\* the run goes on to an encoding (a validation or a reload is its last step)
Encodable == Constructed /\ result.op \notin {"validate", "reload"}

\* Section.to_cfn of the section constructed
ToCfn(order, mount_target) ==
  /\ Encodable
  /\ \E r \in {Section_to_cfn(TheSection, pcluster_config, order, mount_target)} :
        /\ result' = [op |-> "to_cfn", st |-> r.st, err |-> r.err, order |-> order]
        /\ cfn_out' = r.out
        /\ pcluster_config' = r.tree
  /\ UNCHANGED <<cfn_params, config_parser, section, file_before, file_out, validation, reported>>

EncodeCfn == \E order \in Orders, mount_target \in BOOLEAN : ToCfn(order, mount_target)

\* Section.to_file of the section constructed, on the parser of the file
ToFile(order) ==
  /\ Encodable
  /\ \E r \in {Section_to_file(TheSection,
                                [st |-> "ok", err |-> NoErr, secs |-> file_out,
                                 tree |-> pcluster_config],
                                order, FALSE)} :
        /\ result' = [op |-> "to_file", st |-> r.st, err |-> r.err, order |-> order]
        /\ file_before' = file_out
        /\ file_out' = r.secs
        /\ pcluster_config' = r.tree
  /\ UNCHANGED <<cfn_params, config_parser, section, cfn_out, validation, reported>>

EncodeFile == \E order \in Orders : ToFile(order)

\* Section.__init__ of the same kind of section with the parser the last
\* to_file wrote to, then PclusterConfig.add_section on a new tree
Reload ==
  /\ Constructed /\ result.op = "to_file"
  /\ \E s \in {Section_new(SectionMap(section.key), EmptyTree, "", NoCfn, File(file_out), FALSE)} :
        /\ cfn_params' = NoCfn
        /\ config_parser' = File(file_out)
        /\ result' = [op |-> "reload", st |-> s.st, err |-> s.err, order |-> ""]
        /\ pcluster_config' = IF s.st = "ok" THEN add_section(s.tree, s.sec) ELSE s.tree
        /\ section' = IF s.st = "ok" THEN [key |-> s.sec.key, label |-> s.sec.label] ELSE <<>>
  /\ UNCHANGED <<cfn_out, file_before, file_out, validation, reported>>

\* Section.validate of the section just constructed, the validators giving
\* the answers drawn; the run ends with it
Validate(fail_on_error, answers, order) ==
  /\ JustBuilt
  /\ \E r \in {Section_validate(TheSection, answers, fail_on_error, order)} :
        /\ result' = [op |-> "validate", st |-> r.st, err |-> r.err, order |-> order]
        /\ reported' = r.reported
        /\ validation' = [fail_on_error |-> fail_on_error, answers |-> answers,
                          called |-> r.called]
  /\ UNCHANGED <<cfn_params, config_parser, pcluster_config, section, cfn_out,
                 file_before, file_out>>

ValidateSection ==
  \E fail_on_error \in BOOLEAN, answers \in AnswerInputs, order \in Orders :
    Validate(fail_on_error, answers, order)

Next ==
  \/ ConstructFromMap
  \/ ConstructFromFile
  \/ ConstructFromCfn
  \/ ConstructFromBoth
  \/ EncodeCfn
  \/ EncodeFile
  \/ Reload
  \/ ValidateSection

Spec == Init /\ [][Next]_vars

\* ------------------------------------------------------------------------
\* Properties
\* ------------------------------------------------------------------------

\* the state right after Section.__init__ returned
JustConstructed == result.op = "init" /\ Constructed

\* the cluster was decoded from a deployment mapping
ClusterDecoded == JustConstructed /\ section.key = "cluster" /\ CfnGiven(cfn_params)

\* the cluster was encoded to deployment form, to the end
ClusterEncoded == result.op = "to_cfn" /\ result.st = "ok" /\ section.key = "cluster"

\* the value of a parameter of the section constructed
Val(param_key) == get_param_value(TheSection, param_key)

\* the schema default of a parameter of the cluster
ClusterDefault(param_key) == get_default_value(ParamMap(CLUSTER, param_key))

\* the text of a slot of the deployment mapping given to the constructor
Slot(name) == get_cfn_param(cfn_params, name)

SlotIsBatch == Slot("Scheduler") = <<"awsbatch">>

ValIsBatch == Val("scheduler") = A("awsbatch")

\* the block of the file a section of the tree is read from
BlockOf(id) == get_file_section_name(id[1], id[2])

\* a parameter that takes its value from nothing but its own file key or slot
IsPlain(param_map) ==
  param_map.type \notin SettingsTypes /\ param_map.type # "AvailabilityZoneParam"

\* C1: a parameter's value comes from exactly one source, chosen by the
\* precedence deployment input > file > schema default. With a deployment
\* mapping supplied no parameter is read from the file and the tree is the
\* one the mapping alone gives, a parameter with no slot holding its schema
\* default; with only a file, a parameter is read from the file exactly when
\* its key is in its block; every parameter not read from the mapping or the
\* file holds its schema default.
C1_SourcePrecedence ==
  JustConstructed =>
    /\ \A id \in DOMAIN pcluster_config : \A key \in DOMAIN pcluster_config[id].params :
         LET p == pcluster_config[id].params[key]
             section_map == SectionMap(id[1])
             param_map == ParamMap(section_map, key)
             in_file == /\ config_parser.some
                        /\ BlockOf(id) \in DOMAIN config_parser.secs
                        /\ key \in DOMAIN config_parser.secs[BlockOf(id)]
         IN /\ CfnGiven(cfn_params) => p.via # "file"
            /\ (CfnGiven(cfn_params) /\ param_map.cfn = "" /\ section_map.cfn = ""
                /\ IsPlain(param_map))
                 => p.via = "map"
            /\ (~CfnGiven(cfn_params) /\ IsPlain(param_map))
                 => (p.via = "file" <=> in_file)
            /\ ~CfnGiven(cfn_params) => p.via # "cfn"
            /\ p.via = "map" => p.value = get_default_value(param_map)
    /\ (CfnGiven(cfn_params) /\ config_parser.some) =>
         LET alone == Section_new(SectionMap(section.key), EmptyTree, "", cfn_params,
                                  NoFile, FALSE)
         IN pcluster_config = add_section(alone.tree, alone.sec)

\* C1 witness: a cluster constructed with a mapping and a file that disagree
\* on the scheduler and on a parameter with no slot
C1_Witness ==
  /\ JustConstructed /\ CfnGiven(cfn_params) /\ config_parser.some
  /\ {"scheduler", "template_url"} \subseteq DOMAIN config_parser.secs[<<"cluster", "default">>]
  /\ config_parser.secs[<<"cluster", "default">>]["scheduler"] # Slot("Scheduler")
  /\ Val("scheduler") = S(Slot("Scheduler"))
  /\ Val("template_url") = None

\* the value an integer slot decodes to (the schema default for the sentinel)
SlotInt(name, param_key) ==
  IF IsIntText(Slot(name)[1]) THEN I(IntTable[Slot(name)[1]]) ELSE ClusterDefault(param_key)

\* C2: after decoding the cluster from a deployment mapping, for each of the
\* slots DesiredSize, MaxSize, SpotPrice and MinSize the parameter of the
\* branch matching Scheduler holds the value read from the slot and the
\* parameter of the other branch holds its own schema default.
C2_DecodeLiveBranch ==
  ClusterDecoded =>
    /\ IF SlotIsBatch
       THEN /\ Val("desired_vcpus") = SlotInt("DesiredSize", "desired_vcpus")
            /\ Val("initial_queue_size") = ClusterDefault("initial_queue_size")
            /\ Val("max_vcpus") = SlotInt("MaxSize", "max_vcpus")
            /\ Val("max_queue_size") = ClusterDefault("max_queue_size")
            /\ Val("spot_bid_percentage") = I(FloatOf(Slot("SpotPrice")[1]) \div 10)
            /\ Val("spot_price") = ClusterDefault("spot_price")
            /\ Val("min_vcpus") = SlotInt("MinSize", "min_vcpus")
            /\ Val("maintain_initial_size") = ClusterDefault("maintain_initial_size")
       ELSE /\ Val("initial_queue_size") = SlotInt("DesiredSize", "initial_queue_size")
            /\ Val("desired_vcpus") = ClusterDefault("desired_vcpus")
            /\ Val("max_queue_size") = SlotInt("MaxSize", "max_queue_size")
            /\ Val("max_vcpus") = ClusterDefault("max_vcpus")
            /\ Val("spot_price") = F(FloatOf(Slot("SpotPrice")[1]))
            /\ Val("spot_bid_percentage") = ClusterDefault("spot_bid_percentage")
            /\ Val("min_vcpus") = ClusterDefault("min_vcpus")
    /\ (Slot("DesiredSize") = <<"7">> /\ SlotIsBatch)
         => Val("desired_vcpus") = I(7) /\ Val("initial_queue_size") = I(0)
    /\ (Slot("DesiredSize") = <<"7">> /\ Slot("Scheduler") = <<"slurm">>)
         => Val("initial_queue_size") = I(7) /\ Val("desired_vcpus") = I(4)

\* C2 witness: Scheduler=awsbatch with DesiredSize=7 was decoded
C2_Witness ==
  /\ ClusterDecoded /\ SlotIsBatch /\ Slot("DesiredSize") = <<"7">>
  /\ Val("desired_vcpus") = I(7) /\ Val("initial_queue_size") = I(0)
  /\ Val("spot_bid_percentage") = I(50)

\* the parameter of a pair that is live for the scheduler of the tree
Live(batch_key, traditional_key) == IF ValIsBatch THEN batch_key ELSE traditional_key

Dead(batch_key, traditional_key) == IF ValIsBatch THEN traditional_key ELSE batch_key

\* the slot is emitted with the text of the live parameter, never the other's
CarriesLive(slot, batch_key, traditional_key) ==
  /\ slot \in DOMAIN cfn_out
  /\ cfn_out[slot] = Str(Val(Live(batch_key, traditional_key)))
  /\ Str(Val(Dead(batch_key, traditional_key))) # Str(Val(Live(batch_key, traditional_key)))
       => cfn_out[slot] # Str(Val(Dead(batch_key, traditional_key)))

\* C3: when the cluster is encoded to deployment form, in either order of
\* its parameters, DesiredSize, MaxSize and SpotPrice are each emitted and
\* carry the value of the live branch only.
C3_EncodeLiveBranch ==
  ClusterEncoded =>
    /\ CarriesLive("DesiredSize", "desired_vcpus", "initial_queue_size")
    /\ CarriesLive("MaxSize", "max_vcpus", "max_queue_size")
    /\ CarriesLive("SpotPrice", "spot_bid_percentage", "spot_price")

\* C3 witness: a cluster whose two branches hold different values was
\* encoded in the reverse order of its parameters
C3_Witness ==
  /\ ClusterEncoded /\ result.order = "reverse" /\ ~ValIsBatch
  /\ Val("initial_queue_size") = I(7) /\ Val("desired_vcpus") = I(5)
  /\ Val("max_queue_size") = I(20) /\ Val("max_vcpus") = I(50)
  /\ cfn_out["DesiredSize"] = <<"7">> /\ cfn_out["MaxSize"] = <<"20">>
  /\ cfn_out["SpotPrice"] = <<"0.5">>

\* C4: decoding the MinSize slot: with a traditional scheduler
\* maintain_initial_size is true when the slot is > 0 and false when it is 0
\* or NONE, and min_vcpus holds its schema default; with awsbatch min_vcpus
\* holds the slot value and maintain_initial_size its schema default, false.
C4_DecodeFloor ==
  ClusterDecoded =>
    IF SlotIsBatch
    THEN /\ Val("maintain_initial_size") = B(FALSE)
         /\ Slot("MinSize") = <<"3">> => Val("min_vcpus") = I(3)
         /\ Slot("MinSize") = <<"0">> => Val("min_vcpus") = I(0)
    ELSE /\ Val("min_vcpus") = I(0)
         /\ Slot("MinSize") \in {<<"0">>, <<"NONE">>} => Val("maintain_initial_size") = B(FALSE)
         /\ (IsIntText(Slot("MinSize")[1]) /\ IntTable[Slot("MinSize")[1]] > 0)
              => Val("maintain_initial_size") = B(TRUE)

\* C4 witness: a traditional scheduler with MinSize=3 was decoded
C4_Witness ==
  /\ ClusterDecoded /\ Slot("Scheduler") = <<"sge">> /\ Slot("MinSize") = <<"3">>
  /\ Val("maintain_initial_size") = B(TRUE)

\* C5: encoding always emits exactly one MinSize value: initial_queue_size
\* when the scheduler is traditional and maintain_initial_size is true,
\* min_vcpus when the scheduler is awsbatch, and 0 in every other case.
C5_EncodeFloor ==
  ClusterEncoded =>
    /\ "MinSize" \in DOMAIN cfn_out
    /\ Len(cfn_out["MinSize"]) = 1
    /\ cfn_out["MinSize"] =
         IF ~ValIsBatch /\ Val("maintain_initial_size") = B(TRUE)
         THEN Str(Val("initial_queue_size"))
         ELSE IF ValIsBatch THEN Str(Val("min_vcpus"))
         ELSE <<"0">>

\* C5 witness: a traditional cluster that maintains its initial size of 7
\* was encoded
C5_Witness ==
  /\ ClusterEncoded /\ ~ValIsBatch /\ Val("maintain_initial_size") = B(TRUE)
  /\ Val("initial_queue_size") = I(7) /\ cfn_out["MinSize"] = <<"7">>

\* the labels listed in the value of ebs_settings, as written
ListedLabels == IF Truthy(Val("ebs_settings")) THEN Val("ebs_settings").v ELSE <<>>

\* the volume Sections materialized in the tree
VolumeIds == {id \in DOMAIN pcluster_config : id[1] = "ebs"}

\* the slots the volume fields are encoded to
VolumeFields == {j \in 1..Len(EBS.params) : EBS.params[j].cfn # ""}

\* the lists EBSSettingsParam.to_cfn produces: with no label it leaves
\* SharedDir to the cluster's shared_dir
ProducedFields ==
  {j \in VolumeFields : ~(ListedLabels = <<>> /\ EBS.params[j].key = "shared_dir")}

\* C6: for any number of volume labels, more than 5 included, every
\* per-field comma list the encoding of ebs_settings produces has exactly 5
\* entries.
C6_ListsHaveMaxEntries ==
  ClusterEncoded =>
    \A j \in ProducedFields :
      /\ EBS.params[j].cfn \in DOMAIN cfn_out
      /\ Len(cfn_out[EBS.params[j].cfn]) = max_number_of_ebs_volumes

\* the labels of the materialized volumes, in the order the value lists them
MaterializedLabels ==
  LET stripped == [i \in 1..Len(ListedLabels) |-> Strip(ListedLabels[i])]
      keep == {i \in 1..Len(stripped) :
                 /\ <<"ebs", stripped[i]>> \in VolumeIds
                 /\ \A k \in 1..(i - 1) : stripped[k] # stripped[i]}
      nth(m) == CHOOSE i \in keep : Cardinality({k \in keep : k < i}) = m - 1
  IN [m \in 1..Cardinality(keep) |-> stripped[nth(m)]]

\* the encoding of a volume field: the value, else the default, else NONE
FieldText(param_map, value) == get_cfn_value(param_map, value)

\* C7: encoding a tree with n materialized volumes, n <= 5, gives for every
\* volume field a list whose first n entries encode the volumes in the order
\* of their labels and whose other 5 - n entries encode the schema default,
\* and NumberOfEBSVol = max(n, 1).
C7_EncodeVolumes ==
  (result.op = "to_cfn" /\ section # <<>> /\ section.key = "cluster"
   /\ Cardinality(VolumeIds) <= max_number_of_ebs_volumes) =>
    LET n == Cardinality(VolumeIds)
    IN /\ result.st = "ok"
       /\ "NumberOfEBSVol" \in DOMAIN cfn_out
       /\ cfn_out["NumberOfEBSVol"] = <<StrInt(IF n > 1 THEN n ELSE 1)>>
       /\ n >= 1 =>
            \A j \in VolumeFields :
              /\ EBS.params[j].cfn \in DOMAIN cfn_out
              /\ cfn_out[EBS.params[j].cfn] =
                   [i \in 1..max_number_of_ebs_volumes |->
                      IF i <= n
                      THEN FieldText(EBS.params[j],
                                     pcluster_config[<<"ebs", MaterializedLabels[i]>>]
                                       .params[EBS.params[j].key].value)[1]
                      ELSE FieldText(EBS.params[j], get_default_value(EBS.params[j]))[1]]

\* the number in the NumberOfEBSVol slot of the mapping
NumberOfEBSVol == IntTable[Slot("NumberOfEBSVol")[1]]

\* the value position index of a volume field's slot decodes to
FieldAt(param_map, index) ==
  get_value_from_string(param_map, <<Slot(param_map.cfn)[index + 1]>>).value

\* position index of the volume slots differs from the schema defaults
ConfiguredAt(index) ==
  \E j \in VolumeFields : ~PyEq(FieldAt(EBS.params[j], index), MapDefault(EBS.params[j]))

\* the volumes of positions 0..c-1 were decoded: every label is listed, and
\* a Section holds the fields of a position exactly when one is configured
VolumesDecoded(c) ==
  /\ ListedLabels = [i \in 1..c |-> SynthLabel("ebs", i - 1)]
  /\ \A index \in 0..(c - 1) :
       LET id == <<"ebs", SynthLabel("ebs", index)>>
       IN /\ id \in VolumeIds <=> ConfiguredAt(index)
          /\ id \in VolumeIds =>
               \A j \in VolumeFields :
                 pcluster_config[id].params[EBS.params[j].key].value
                   = FieldAt(EBS.params[j], index)

\* C8 as stated: decoding with NumberOfEBSVol = c, for every c >= 1,
\* synthesizes the labels ebs1..ebs<c>, reads each field from position i of
\* its slot and adds the Section of a label iff one of its fields differs
\* from the schema default.
C8_DecodeVolumesFromOne ==
  (ClusterDecoded /\ NumberOfEBSVol >= 1) => VolumesDecoded(NumberOfEBSVol)

\* C8 amended: the same for every c >= 2; with c = 1 the single volume is the
\* default one: no label is synthesized, the value is None and no volume
\* Section is added, whatever the first position of the slots holds.
C8_DecodeVolumesFromTwo ==
  /\ (ClusterDecoded /\ NumberOfEBSVol >= 2) => VolumesDecoded(NumberOfEBSVol)
  /\ (ClusterDecoded /\ NumberOfEBSVol <= 1)
       => Val("ebs_settings") = None /\ VolumeIds = {}

\* C8 witness: three volumes were decoded, the second one left out of the
\* tree because all its fields are the defaults
C8_Witness ==
  /\ ClusterDecoded /\ NumberOfEBSVol = 3
  /\ ConfiguredAt(0) /\ ~ConfiguredAt(1) /\ ConfiguredAt(2)
  /\ VolumeIds = {<<"ebs", "ebs1">>, <<"ebs", "ebs3">>}
  /\ Val("ebs_settings") = S(<<"ebs1", "ebs2", "ebs3">>)

\* C9: after a tree is built from any source, ebs_settings lists as many
\* labels as there are volume Sections in the tree, and every listed label
\* names a Section of the tree.
C9_LabelsAreSections ==
  (JustConstructed /\ section.key = "cluster") =>
    /\ Len(ListedLabels) = Cardinality(VolumeIds)
    /\ \A i \in 1..Len(ListedLabels) : <<"ebs", Strip(ListedLabels[i])>> \in VolumeIds

\* every parameter of the section constructed equals its schema default
AllDefault ==
  \A j \in 1..Len(SectionMap(section.key).params) :
    LET param_map == SectionMap(section.key).params[j]
    IN PyEq(Val(param_map.key), get_default_value(param_map))

\* C10: Section.to_file of a Section whose parameters all equal their schema
\* defaults adds no block header, for every kind of section.
C10_SparseWrite ==
  (result.op = "to_file" /\ result.st = "ok" /\ AllDefault) =>
    BlockOf(<<section.key, section.label>>) \notin (DOMAIN file_out) \ (DOMAIN file_before)

\* a Section was encoded to the file, to the end
FileEncoded == result.op = "to_file" /\ result.st = "ok"

\* the block of the section constructed holds a line for the key
InBlock(key) ==
  LET name == get_file_section_name(section.key, section.label)
  IN name \in DOMAIN file_out /\ key \in DOMAIN file_out[name]

\* the parameter of the section constructed holds a value to be written
NonDefault(param_map) ==
  Val(param_map.key) # None /\ ~PyEq(Val(param_map.key), get_default_value(param_map))

\* C11: after a Section is encoded to the file, for every parameter of the
\* section that is exposed in the file and is not a settings indirection,
\* the block of the section holds the key exactly when the value is not None
\* and differs from the schema default, whatever the file held before: a
\* stale key of a parameter that now holds its default is removed.
C11_KeyIffNonDefault ==
  FileEncoded =>
    \A j \in 1..Len(SectionMap(section.key).params) :
      LET param_map == SectionMap(section.key).params[j]
      IN IsPlain(param_map) => (InBlock(param_map.key) <=> NonDefault(param_map))

\* the tree was built from the schema defaults alone
BuiltFromMap == ~CfnGiven(cfn_params) /\ ~config_parser.some

\* no block of the file holds a key = value line
NoLines(secs) == \A name \in DOMAIN secs : DOMAIN secs[name] = {}

\* C12: round trip on defaults: a tree built from the schema defaults only,
\* encoded to the file, gives a file with no key = value line, and decoding
\* that file gives a tree with the same sections and the same value of every
\* parameter as the all-defaults tree.
C12_DefaultsRoundTrip ==
  [][(BuiltFromMap /\ FileEncoded /\ result'.op = "reload")
       => /\ NoLines(file_out)
          /\ result'.st = "ok"
          /\ DOMAIN pcluster_config' = DOMAIN pcluster_config
          /\ \A id \in DOMAIN pcluster_config :
               /\ DOMAIN pcluster_config'[id].params = DOMAIN pcluster_config[id].params
               /\ \A key \in DOMAIN pcluster_config[id].params :
                    pcluster_config'[id].params[key].value
                      = pcluster_config[id].params[key].value]_vars

\* C12 witness: the all-defaults cluster was written to an empty parser,
\* which got the header of its block and no line, and was decoded again
C12_Witness ==
  /\ result.op = "reload" /\ Constructed /\ section.key = "cluster"
  /\ file_before = <<>> /\ config_parser = File(file_out)
  /\ DOMAIN file_out = {<<"cluster", "default">>} /\ NoLines(file_out)
  /\ AllDefault
  /\ {id[1] : id \in DOMAIN pcluster_config} = {"cluster", "scaling", "vpc"}

\* the tree was decoded from a file alone, or the decoding failed
DecodedFromFile == result.op = "init" /\ config_parser.some /\ ~CfnGiven(cfn_params)

\* the blocks of the file the decoding of the cluster goes through: its own
\* and those a settings line of it names
ReferencedBlocks ==
  LET secs == config_parser.secs
      cluster == <<"cluster", "default">>
  IN {b \in DOMAIN secs :
        \/ b = cluster
        \/ /\ cluster \in DOMAIN secs
           /\ \E j \in 1..Len(CLUSTER.params) :
                /\ CLUSTER.params[j].type \in SettingsTypes
                /\ CLUSTER.params[j].ref = b[1]
                /\ CLUSTER.params[j].key \in DOMAIN secs[cluster]
                /\ \E i \in 1..Len(secs[cluster][CLUSTER.params[j].key]) :
                     Strip(secs[cluster][CLUSTER.params[j].key][i]) = b[2]}

\* the text of a line can be coerced to the type of its parameter
Coercible(param_map, text) ==
  IF param_map.type \in IntTypes THEN Len(text) = 1 /\ IsIntText(text[1])
  ELSE IF param_map.type \in FloatTypes THEN Len(text) = 1 /\ IsFloatText(text[1])
  ELSE param_map.type = "Param"

\* the value the text of a line is coerced to
FileValue(param_map, text) ==
  IF param_map.type \in IntTypes THEN I(IntTable[text[1]])
  ELSE IF param_map.type \in FloatTypes THEN F(FloatOf(text[1]))
  ELSE S(text)

\* the lines of the file that give a coercible text to a parameter with
\* allowed_values: <<block, key>>
CheckedLines ==
  {line \in UNION {{<<b, key>> : key \in DOMAIN config_parser.secs[b]} : b \in ReferencedBlocks} :
     /\ HasParam(SectionMap(line[1][1]), line[2])
     /\ ParamMap(SectionMap(line[1][1]), line[2]).allowed # ""
     /\ IsPlain(ParamMap(SectionMap(line[1][1]), line[2]))
     /\ Coercible(ParamMap(SectionMap(line[1][1]), line[2]), config_parser.secs[line[1]][line[2]])}

LineMap(line) == ParamMap(SectionMap(line[1][1]), line[2])

LineValue(line) == FileValue(LineMap(line), config_parser.secs[line[1]][line[2]])

\* the atoms the whole of which matches the pattern
FullMatchAtoms(id) == RegexAtoms(id) \ {"fs-12345678901234567-bad"}

\* the value is a member of the enumerated set, or the whole of its text
\* matches the pattern
Satisfies(param_map, value) ==
  IF IsAllowedList(param_map.allowed)
  THEN \E x \in AllowedList(param_map.allowed) : PyEq(value, x)
  ELSE Len(Str(value)) = 1 /\ Str(value)[1] \in FullMatchAtoms(param_map.allowed)

\* C13: decoding a parameter from the text of a file against allowed values
\* accepts the value unchanged exactly when it is a member of the enumerated
\* set or the whole of its text matches the pattern; otherwise the build ends
\* with a fatal error that names the key of the parameter and the allowed
\* set or pattern.
C13_AllowedIffMatches ==
  DecodedFromFile =>
    /\ result.st = "ok" =>
         \A line \in CheckedLines :
           /\ Satisfies(LineMap(line), LineValue(line))
           /\ pcluster_config[line[1]].params[line[2]].value = LineValue(line)
    /\ (\E line \in CheckedLines : ~Satisfies(LineMap(line), LineValue(line))) =>
         /\ result.st = "fatal" /\ result.err.type = "invalid value"
         /\ \E line \in CheckedLines :
              /\ ~Satisfies(LineMap(line), LineValue(line))
              /\ result.err.key = line[2]
              /\ result.err.info = <<LineMap(line).allowed>>
    /\ (result.st = "fatal" /\ result.err.type = "invalid value") =>
         \E line \in CheckedLines :
           ~Satisfies(LineMap(line), LineValue(line)) /\ result.err.key = line[2]

\* C14: a disallowed value always aborts the build: after a tree is built
\* from the file, from the deployment mapping or from the defaults, every
\* parameter whose schema declares allowed values holds None or a value that
\* satisfies the allowed set or pattern.
C14_BuiltValuesAllowed ==
  JustConstructed =>
    \A id \in DOMAIN pcluster_config : \A key \in DOMAIN pcluster_config[id].params :
      LET param_map == ParamMap(SectionMap(id[1]), key)
          value == pcluster_config[id].params[key].value
      IN (param_map.allowed # "" /\ IsPlain(param_map))
           => (value = None \/ Satisfies(param_map, value))

\* the keys of a block of the file that its schema does not declare
Undeclared(b) == {key \in DOMAIN config_parser.secs[b] : ~HasParam(SectionMap(b[1]), key)}

\* the sequence lists every element of the set, once
Lists(seq, set) == {seq[i] : i \in 1..Len(seq)} = set /\ Len(seq) = Cardinality(set)

\* the outcome of decoding one block by itself: of its first parameter, and
\* of the whole block
FirstOf(b) ==
  Param_new(b[1], b[2], SectionMap(b[1]).params[1], EmptyTree, NoText, config_parser, NoCfn)

BlockAlone(b) == Section_new(SectionMap(b[1]), EmptyTree, b[2], NoCfn, config_parser, TRUE)

\* the error is the one of undeclared keys, and lists all those of the block
ListsUndeclared(err, b) ==
  err.type = "not allowed" /\ err.key = b[1] /\ Lists(err.info, Undeclared(b))

NonCoercible(param_map, text) ==
  CASE param_map.type \in IntTypes -> ~(Len(text) = 1 /\ IsIntText(Strip(text[1])))
    [] param_map.type \in FloatTypes -> ~(Len(text) = 1 /\ IsFloatText(Strip(text[1])))
    [] param_map.type \in BoolTypes -> ~(Len(text) = 1 /\ Strip(text[1]) \in DOMAIN BooleanStates)
    [] param_map.type \in JsonTypes -> StripText(text) = <<"{">>
    [] OTHER -> FALSE

\* the build ended with a fatal error that names the key and the text
FailsNaming(key, text) ==
  /\ result.st = "fatal" /\ section = <<>>
  /\ result.err.key = key
  /\ \A i \in 1..Len(text) : \E k \in 1..Len(result.err.info) : result.err.info[k] = text[i]

\* the lines of the decoded blocks that give a typed parameter a text that
\* cannot be coerced: <<block, key>>
NonCoercibleLines ==
  {line \in UNION {{<<b, key>> : key \in DOMAIN config_parser.secs[b]} : b \in ReferencedBlocks} :
     /\ HasParam(SectionMap(line[1][1]), line[2])
     /\ NonCoercible(LineMap(line), config_parser.secs[line[1]][line[2]])}

\* the cluster's parameters of the plain typed classes whose own slot holds
\* a text, other than the sentinel, that cannot be coerced
NonCoercibleSlots ==
  {j \in 1..Len(CLUSTER.params) :
     /\ CLUSTER.params[j].type \in {"IntParam", "FloatParam", "BoolParam", "JsonParam"}
     /\ CLUSTER.params[j].cfn # ""
     /\ StripText(Slot(CLUSTER.params[j].cfn)) # <<"NONE">>
     /\ NonCoercible(CLUSTER.params[j], Slot(CLUSTER.params[j].cfn))}

\* C16: materializing an int, float, bool or JSON parameter from a text that
\* cannot be coerced to its type fails fatally, the message naming the key
\* and the text, whether the text comes from the file or from a deployment
\* slot; the text is never silently replaced by the default or another value.
C16_NonCoercibleIsFatal ==
  /\ DecodedFromFile =>
       \A line \in NonCoercibleLines :
         FailsNaming(line[2], config_parser.secs[line[1]][line[2]])
  /\ (result.op = "init" /\ CfnGiven(cfn_params)) =>
       \A j \in NonCoercibleSlots :
         FailsNaming(CLUSTER.params[j].key, Slot(CLUSTER.params[j].cfn))

\* Section.validate has run on the section constructed
WasValidated == result.op = "validate"

\* what the validator of a key answered in the last validate
Answered(key) == validation_func(validation.answers, key)

\* the keys whose validator is called: the section's own when it has one, and
\* the parameters that have a validator and a value other than None
ValidatedKeys ==
  (IF SectionMap(section.key).validator # "" THEN {section.key} ELSE {})
  \cup {SectionMap(section.key).params[j].key : j \in
          {j \in 1..Len(SectionMap(section.key).params) :
             /\ SectionMap(section.key).params[j].validator # ""
             /\ Val(SectionMap(section.key).params[j].key) # None}}

\* a message of the level was printed for the key
ReportedAs(level, key) ==
  \E i \in 1..Len(reported) : reported[i].level = level /\ reported[i].key = key

\* C17: the validation policy. A validator answers (errors, warnings): errors
\* abort the run when fail_on_error is true and are only reported when it is
\* false; warnings are always reported and never stop the run; a parameter
\* with no validator, or whose value is None, is not validated.
C17_ValidationPolicy ==
  WasValidated =>
    /\ (validation.fail_on_error /\ \E key \in ValidatedKeys : Answered(key).errors # <<>>)
         => /\ result.st = "fatal"
            /\ result.err.key \in ValidatedKeys
            /\ Answered(result.err.key).errors # <<>>
    /\ ~validation.fail_on_error
         => /\ result.st = "ok"
            /\ \A key \in ValidatedKeys :
                 Answered(key).errors # <<>> => ReportedAs("error", key)
    /\ (\A key \in ValidatedKeys : Answered(key).errors = <<>>) => result.st = "ok"
    /\ result.st = "ok"
         => \A key \in ValidatedKeys :
              Answered(key).warnings # <<>> => ReportedAs("warning", key)
    /\ \A i \in 1..Len(reported) :
         /\ reported[i].key \in ValidatedKeys
         /\ reported[i].level = "error" => reported[i].lines = Answered(reported[i].key).errors
         /\ reported[i].level = "warning"
              => reported[i].lines = Answered(reported[i].key).warnings

\* a Section was encoded to deployment form, to the end
CfnEncoded == result.op = "to_cfn" /\ result.st = "ok"

\* the parameter holds no configured value: None, or the empty list an unset
\* list-valued parameter holds
UnsetPlain(param_map) ==
  \/ Val(param_map.key) = None
  \/ param_map.type \in CommaTypes /\ Val(param_map.key) = L(<<>>)

\* the JSON-valued parameter holds the empty mapping it holds when left unset
UnsetJson(param_map) == param_map.type \in JsonTypes /\ Val(param_map.key) = D(<<>>)

\* the parameters of the section encoded that declare a slot of their own
SlotParams ==
  {SectionMap(section.key).params[j] : j \in
     {j \in 1..Len(SectionMap(section.key).params) :
        /\ SectionMap(section.key).params[j].cfn # ""
        /\ SectionMap(section.key).params[j].type \notin SettingsTypes}}

\* a section whose parameters use independent slots was encoded
SlotsEncoded == CfnEncoded /\ SectionMap(section.key).cfn = ""

DefaultLabelSettings ==
  {CLUSTER.params[j] : j \in
     {j \in 1..Len(CLUSTER.params) :
        CLUSTER.params[j].type = "SettingsParam" /\ MapDefault(CLUSTER.params[j]) # None}}

\* the Section a settings parameter of the cluster refers to is in the tree
ReferredExists(param_map) ==
  /\ Truthy(Val(param_map.key))
  /\ <<param_map.ref, Val(param_map.key).v[1]>> \in DOMAIN pcluster_config

\* the file gives the settings key a label
LabelInFile(param_map) ==
  /\ config_parser.some /\ ~CfnGiven(cfn_params)
  /\ <<"cluster", "default">> \in DOMAIN config_parser.secs
  /\ param_map.key \in DOMAIN config_parser.secs[<<"cluster", "default">>]
  /\ TextTruthy(config_parser.secs[<<"cluster", "default">>][param_map.key])

\* every parameter of a Section of the tree holds its schema default
SectionAllDefault(id) ==
  \A j \in 1..Len(SectionMap(id[1]).params) :
    PyEq(pcluster_config[id].params[SectionMap(id[1]).params[j].key].value,
         get_default_value(SectionMap(id[1]).params[j]))

\* C19: for a plain settings parameter with a schema default label
\* (scaling_settings, vpc_settings), after the cluster is built from the
\* defaults, from a file with or without the settings key, or from a
\* deployment mapping, the referred Section is in the tree; when the file
\* gives the key no explicit value, it is materialized with all-default
\* values.
C19_DefaultLabelMaterialized ==
  (JustConstructed /\ section.key = "cluster") =>
    \A param_map \in DefaultLabelSettings :
      /\ ReferredExists(param_map)
      /\ (~CfnGiven(cfn_params) /\ ~LabelInFile(param_map)) =>
           /\ Val(param_map.key) = MapDefault(param_map)
           /\ SectionAllDefault(<<param_map.ref, MapDefault(param_map).v[1]>>)

\* the settings lines of the cluster block that name a label: <<key, text>>
SettingsLines ==
  IF <<"cluster", "default">> \in DOMAIN config_parser.secs
  THEN {<<CLUSTER.params[j].key,
          config_parser.secs[<<"cluster", "default">>][CLUSTER.params[j].key]>> : j \in
          {j \in 1..Len(CLUSTER.params) :
             /\ CLUSTER.params[j].type \in SettingsTypes
             /\ CLUSTER.params[j].key \in DOMAIN config_parser.secs[<<"cluster", "default">>]
             /\ TextTruthy(config_parser.secs[<<"cluster", "default">>][CLUSTER.params[j].key])}}
  ELSE {}

\* the labels a settings line names: the whole value for a plain settings
\* parameter, the stripped items of the list for a multi-instance one
LabelsOf(line) ==
  IF ParamMap(CLUSTER, line[1]).type = "SettingsParam" THEN {line[2][1]}
  ELSE {Strip(line[2][i]) : i \in 1..Len(line[2])}

\* a plain settings line with more than one label
MultiLabel(line) ==
  ParamMap(CLUSTER, line[1]).type = "SettingsParam" /\ Len(line[2]) > 1

\* the labels of a settings line that have no block of the referred kind
Dangling(line) ==
  IF MultiLabel(line) THEN {}
  ELSE {label \in LabelsOf(line) :
          <<ParamMap(CLUSTER, line[1]).ref, label>> \notin DOMAIN config_parser.secs}

\* the run was aborted by the fatal error "section not found" for a label of
\* the line, or by the fatal error on its comma
AbortedBy(line) ==
  /\ result.st = "fatal" /\ section = <<>>
  /\ IF MultiLabel(line)
     THEN result.err.type = "invalid settings" /\ result.err.key = line[1]
     ELSE /\ result.err.type = "Section not found"
          /\ result.err.key = ParamMap(CLUSTER, line[1]).ref
          /\ \E label \in Dangling(line) : result.err.info = <<label>>

\* C20: decoding from file a settings key whose value names a label with no
\* block of the referred kind in the file aborts the run with the fatal error
\* "section not found", for plain and for multi-instance settings alike, and a
\* plain settings value with a comma (more than one label) is a fatal error.
C20_DanglingLabelIsFatal ==
  DecodedFromFile =>
    \/ \A line \in SettingsLines : ~MultiLabel(line) /\ Dangling(line) = {}
    \/ \E line \in SettingsLines :
         (MultiLabel(line) \/ Dangling(line) # {}) /\ AbortedBy(line)

\* a plain settings line naming a label with no block was the cause of an abort
C20_Witness ==
  /\ DecodedFromFile
  /\ \E line \in SettingsLines :
       /\ line[1] \in {"vpc_settings", "efs_settings"} /\ Dangling(line) # {}
       /\ AbortedBy(line)

C20_WitnessEbs ==
  /\ DecodedFromFile
  /\ \E line \in SettingsLines :
       line[1] = "ebs_settings" /\ Dangling(line) # {} /\ AbortedBy(line)

C20_WitnessComma ==
  /\ DecodedFromFile
  /\ \E line \in SettingsLines : MultiLabel(line) /\ AbortedBy(line)

\* the settings parameters of the cluster that carry no default label
NoDefaultLabelSettings ==
  {CLUSTER.params[j] : j \in
     {j \in 1..Len(CLUSTER.params) :
        CLUSTER.params[j].type \in SettingsTypes /\ MapDefault(CLUSTER.params[j]) = None}}

\* every item of a slot of the deployment mapping is the sentinel
SlotUnset(name) == \A i \in 1..Len(Slot(name)) : Slot(name)[i] = "NONE"

\* the input of the build carries no settings for the parameter: the file
\* has no line for its key, or the mapping has nothing but the sentinel in
\* the slots of the referred kind (and counts no more than one volume)
SettingsAbsent(param_map) ==
  IF CfnGiven(cfn_params)
  THEN IF param_map.type = "EBSSettingsParam"
       THEN /\ Slot("NumberOfEBSVol") \in {<<"0">>, <<"1">>}
            /\ \A j \in 1..Len(EBS.params) : SlotUnset(EBS.params[j].cfn)
       ELSE SlotUnset(SectionMap(param_map.ref).cfn)
  ELSE \/ ~config_parser.some
       \/ <<"cluster", "default">> \notin DOMAIN config_parser.secs
       \/ param_map.key \notin DOMAIN config_parser.secs[<<"cluster", "default">>]

\* the tree holds a Section of the kind
HoldsKind(kind) == \E id \in DOMAIN pcluster_config : id[1] = kind

\* C21: for a settings parameter with no schema default label (efs_settings,
\* raid_settings, fsx_settings, ebs_settings), when the input of the build
\* (file or deployment mapping) carries no settings for it, no Section of
\* the referred kind is created in the tree.
C21_NoSettingsNoSection ==
  (JustConstructed /\ section.key = "cluster") =>
    \A param_map \in NoDefaultLabelSettings :
      SettingsAbsent(param_map) => ~HoldsKind(param_map.ref)

\* the same, for the builds from a file or from the defaults alone
C21_NoSettingsNoSectionFromFile ==
  (JustConstructed /\ section.key = "cluster" /\ ~CfnGiven(cfn_params)) =>
    \A param_map \in NoDefaultLabelSettings :
      SettingsAbsent(param_map) => ~HoldsKind(param_map.ref)

\* the sections the schema encodes in one flattening slot
FlatKinds == {kind \in SectionKinds : SectionMap(kind).cfn # ""}

\* item i of the flattening slot of a kind, the sentinel past its end
ItemAt(kind, i) ==
  IF i <= Len(Slot(SectionMap(kind).cfn)) THEN Slot(SectionMap(kind).cfn)[i] ELSE "NONE"

\* the value an item of a slot stands for in the type of its parameter
ItemValue(param_map, item) ==
  IF param_map.type \in IntTypes THEN I(IntTable[item])
  ELSE IF param_map.type \in FloatTypes THEN F(FloatOf(item))
  ELSE IF param_map.type \in BoolTypes THEN B(item = "true")
  ELSE S(<<item>>)

\* a Section of a flattened kind was decoded from the mapping given
FlatDecoded(id) ==
  /\ JustConstructed /\ section.key = "cluster" /\ CfnGiven(cfn_params)
  /\ id \in DOMAIN pcluster_config /\ id[1] \in FlatKinds

\* C22: decoding from deployment form a section that declares one flattening
\* slot splits the slot text by comma and assigns item i to the i-th
\* parameter in schema-declaration order; a parameter whose position is
\* missing, empty or NONE takes its schema default, so a slot equal to the
\* single sentinel NONE yields the all-defaults section.
C22_FlatDecodeByPosition ==
  \A id \in DOMAIN pcluster_config :
    FlatDecoded(id) =>
      /\ \A i \in 1..Len(SectionMap(id[1]).params) :
           LET param_map == SectionMap(id[1]).params[i]
               item == Strip(ItemAt(id[1], i))
           IN PyEq(pcluster_config[id].params[param_map.key].value,
                   IF item \in {"", "NONE"} THEN get_default_value(param_map)
                   ELSE ItemValue(param_map, item))
      /\ Slot(SectionMap(id[1]).cfn) = <<"NONE">> => SectionAllDefault(id)

\* a raid Section decoded from a slot that stops short and has an empty
\* position: the items given are in place, the others are defaults
C22_Witness ==
  /\ FlatDecoded(<<"raid", "default">>)
  /\ Slot("RAIDOptions") = <<"/raid", "", "2", "NONE", "50">>
  /\ pcluster_config[<<"raid", "default">>].params["num_of_raid_volumes"].value = I(2)
  /\ pcluster_config[<<"raid", "default">>].params["volume_size"].value = I(50)
  /\ pcluster_config[<<"raid", "default">>].params["raid_type"].value = None
  /\ pcluster_config[<<"raid", "default">>].params["encrypted"].value = B(FALSE)

\* the settings parameter of the cluster that refers to a kind
SettingsOf(kind) ==
  CHOOSE param_map \in {CLUSTER.params[j] : j \in 1..Len(CLUSTER.params)} :
    param_map.ref = kind

\* the Section of a flattened kind the cluster refers to, << >> when none:
\* the one its settings parameter names, or, when it names none, the Section
\* of the kind that the tree holds
ReferredId(kind) ==
  IF Truthy(Val(SettingsOf(kind).key))
  THEN IF <<kind, Val(SettingsOf(kind).key).v[1]>> \in DOMAIN pcluster_config
       THEN <<kind, Val(SettingsOf(kind).key).v[1]>>
       ELSE <<>>
  ELSE IF HoldsKind(kind)
  THEN CHOOSE id \in DOMAIN pcluster_config : id[1] = kind
  ELSE <<>>

\* the value of parameter i of that Section, the schema default when the
\* cluster refers to none
ReferredValue(kind, i) ==
  IF ReferredId(kind) = <<>> THEN get_default_value(SectionMap(kind).params[i])
  ELSE pcluster_config[ReferredId(kind)].params[SectionMap(kind).params[i].key].value

\* the encoding of one parameter inside a flattening slot: the value, the
\* schema default when there is none, the sentinel when there is neither
Encoding(param_map, value) ==
  LET held == IF value = None THEN get_default_value(param_map) ELSE value
  IN IF param_map.type \in BoolTypes THEN IF Truthy(held) THEN "true" ELSE "false"
     ELSE IF held = None THEN "NONE"
     ELSE Str(held)[1]

\* C23: encoding to deployment form a section that declares one flattening
\* slot (efs, raid, fsx) emits that single slot, whose first len(params)
\* comma-separated items are the per-parameter encodings in
\* schema-declaration order, except that when the first parameter's encoding
\* is the sentinel NONE all of those items are NONE.
C23_FlatEncodeByPosition ==
  (CfnEncoded /\ section.key = "cluster") =>
    \A kind \in FlatKinds :
      /\ SectionMap(kind).cfn \in DOMAIN cfn_out
      /\ Len(cfn_out[SectionMap(kind).cfn]) >= Len(SectionMap(kind).params)
      /\ \A i \in 1..Len(SectionMap(kind).params) :
           cfn_out[SectionMap(kind).cfn][i] =
             IF Encoding(SectionMap(kind).params[1], ReferredValue(kind, 1)) = "NONE"
             THEN "NONE"
             ELSE Encoding(SectionMap(kind).params[i], ReferredValue(kind, i))

\* a raid Section with a directory and an efs Section without one were
\* encoded: the first slot lists the encodings, the second the sentinel only
C23_Witness ==
  /\ CfnEncoded /\ section.key = "cluster"
  /\ ReferredId("raid") # <<>>
  /\ ReferredValue("raid", 1) # None
  /\ ReferredValue("raid", 3) = I(2)
  /\ cfn_out["RAIDOptions"][1] = "/raid" /\ cfn_out["RAIDOptions"][3] = "2"
  /\ cfn_out["RAIDOptions"][2] = "NONE" /\ cfn_out["RAIDOptions"][7] = "false"

\* an efs Section with a file system but no directory was encoded to the
\* sentinel in every position
C23_WitnessAllNone ==
  /\ CfnEncoded /\ section.key = "cluster"
  /\ ReferredId("efs") # <<>>
  /\ ReferredValue("efs", 1) = None /\ ReferredValue("efs", 2) # None
  /\ \A i \in 1..Len(EFS.params) : cfn_out["EFSOptions"][i] = "NONE"

\* the multi-instance settings of the cluster name at least one volume and
\* every label they name is a Section of the tree
VolumesMaterialized ==
  /\ section # <<>> /\ section.key = "cluster"
  /\ Len(ListedLabels) >= 1
  /\ \A i \in 1..Len(ListedLabels) : <<"ebs", Strip(ListedLabels[i])>> \in VolumeIds

\* the block of a Section of the tree is written by the ordinary rules: a
\* line for each parameter that holds a value other than its default, and no
\* block when there is none
WrittenAsSection(id) ==
  LET written == {j \in 1..Len(SectionMap(id[1]).params) :
                    /\ pcluster_config[id].params[SectionMap(id[1]).params[j].key].value # None
                    /\ ~PyEq(pcluster_config[id].params[SectionMap(id[1]).params[j].key].value,
                             get_default_value(SectionMap(id[1]).params[j]))}
  IN IF written = {} THEN BlockOf(id) \notin (DOMAIN file_out) \ (DOMAIN file_before)
     ELSE /\ BlockOf(id) \in DOMAIN file_out
          /\ \A j \in written :
               /\ SectionMap(id[1]).params[j].key \in DOMAIN file_out[BlockOf(id)]
               /\ file_out[BlockOf(id)][SectionMap(id[1]).params[j].key]
                    = Str(pcluster_config[id].params[SectionMap(id[1]).params[j].key].value)

\* C24: encoding to file form a tree whose multi-instance settings parameter
\* names n >= 1 materialized volume sections completes without failure and
\* writes the settings key with the comma list of labels in the parent block
\* and, for each label, that Section's block according to the ordinary
\* Section encode-to-file rules.
C24_VolumesToFile ==
  (result.op = "to_file" /\ VolumesMaterialized) =>
    /\ result.st = "ok"
    /\ InBlock("ebs_settings")
    /\ SplitStrip(file_out[BlockOf(<<section.key, section.label>>)]["ebs_settings"])
         = SplitStrip(ListedLabels)
    /\ \A i \in 1..Len(ListedLabels) : WrittenAsSection(<<"ebs", Strip(ListedLabels[i])>>)

\* the encode to file of such a tree ended, one way or the other
C24_Attempted == result.op = "to_file" /\ VolumesMaterialized

\* the items of a list are those of a text, each without the blanks around
ItemsOf(value, text) ==
  /\ value.ty = "list" /\ Len(value.v) = Len(text)
  /\ \A i \in 1..Len(text) : value.v[i] = Strip(text[i])

\* a non-empty list of items without blanks around them
CleanList(value) ==
  /\ value # None /\ value.ty = "list" /\ value.v # <<>>
  /\ \A i \in 1..Len(value.v) : value.v[i] # "" /\ Strip(value.v[i]) = value.v[i]

\* C25: for the comma-list parameter of the schema (additional_iam_policies),
\* file decode splits the text on commas and trims each item, and file encode
\* writes the items joined by commas, so that decoding what was encoded
\* returns the same list for every non-empty list of clean items; empty or
\* NONE deployment text decodes to the default (empty) list.
C25_CommaListRoundTrip ==
  /\ (DecodedFromFile /\ JustConstructed /\ section.key = "cluster"
      /\ InBlock("additional_iam_policies")) =>
       ItemsOf(Val("additional_iam_policies"),
               config_parser.secs[<<"cluster", "default">>]["additional_iam_policies"])
  /\ (FileEncoded /\ section.key = "cluster" /\ CleanList(Val("additional_iam_policies"))) =>
       /\ InBlock("additional_iam_policies")
       /\ ItemsOf(Val("additional_iam_policies"),
                  file_out[BlockOf(<<section.key, section.label>>)]["additional_iam_policies"])
  /\ (ClusterDecoded /\ Slot("EC2IAMPolicies") \in {<<"">>, <<"NONE">>}) =>
       Val("additional_iam_policies") = L(<<>>)

\* the decoding half of it: what a file or a deployment mapping lists is
\* split and trimmed, and empty or NONE deployment text is the empty list
C25_CommaListDecode ==
  /\ (DecodedFromFile /\ JustConstructed /\ section.key = "cluster"
      /\ InBlock("additional_iam_policies")) =>
       ItemsOf(Val("additional_iam_policies"),
               config_parser.secs[<<"cluster", "default">>]["additional_iam_policies"])
  /\ (ClusterDecoded /\ Slot("EC2IAMPolicies") \in {<<"">>, <<"NONE">>}) =>
       Val("additional_iam_policies") = L(<<>>)

\* the validators Section.validate has to invoke, the parameters taken in
\* the order seq: the section's own when the schema declares one, then that
\* of every parameter that declares one and holds a value
DueValidators(seq) ==
  LET section_map == SectionMap(section.key)
      Due(param_map) == param_map.validator # "" /\ Val(param_map.key) # None
      due == SelectSeq([i \in 1..Len(seq) |-> section_map.params[seq[i]]], Due)
  IN (IF section_map.validator # "" THEN <<section.key>> ELSE <<>>)
     \o [i \in 1..Len(due) |-> due[i].key]

\* the validators invoked among those due: all of them, or, when the run
\* stops at the first error, those up to the first that reports one
InvokedOf(due) ==
  LET failing == {i \in 1..Len(due) : Answered(due[i]).errors # <<>>}
  IN IF validation.fail_on_error /\ failing # {}
     THEN SubSeq(due, 1, CHOOSE i \in failing : \A k \in failing : i <= k)
     ELSE due

\* C26: Section.validate invokes the section-level validator (when the
\* schema declares one) before any parameter validator, and then invokes, in
\* schema order and exactly once each, the validator of every parameter that
\* declares one and has a non-None value; with fail_on_error false every one
\* of them is invoked even when an earlier one reported errors, and with
\* fail_on_error true none is invoked after the first reported error.
C26_ValidatorsInSchemaOrder ==
  WasValidated =>
    validation.called =
      InvokedOf(DueValidators(ParamOrder(SectionMap(section.key), "schema")))

\* the same, the parameters taken in the order the run iterated them in
C26_ValidatorsInIterationOrder ==
  WasValidated =>
    validation.called =
      InvokedOf(DueValidators(ParamOrder(SectionMap(section.key), result.order)))

\* the plain settings parameters of the cluster
PlainSettings ==
  {CLUSTER.params[j] : j \in
     {j \in 1..Len(CLUSTER.params) : CLUSTER.params[j].type = "SettingsParam"}}

\* the Section a plain settings parameter refers to exists and one of its
\* parameters differs from its schema default
RefersToConfigured(param_map) ==
  ReferredId(param_map.ref) # <<>> /\ ~SectionAllDefault(ReferredId(param_map.ref))

\* the last encode to the file put the line of a key in the block of the
\* cluster, or a block in the file
KeyWritten(key) ==
  /\ InBlock(key)
  /\ ~(/\ BlockOf(<<section.key, section.label>>) \in DOMAIN file_before
       /\ key \in DOMAIN file_before[BlockOf(<<section.key, section.label>>)]
       /\ file_before[BlockOf(<<section.key, section.label>>)][key]
            = file_out[BlockOf(<<section.key, section.label>>)][key])

HeaderWritten(kind) ==
  \E name \in (DOMAIN file_out) \ (DOMAIN file_before) : name[1] = kind

\* the encode of the cluster to the file went through the settings parameter:
\* it ended, or it failed on that parameter
SettingsEncoded(param_map) ==
  /\ result.op = "to_file" /\ section # <<>> /\ section.key = "cluster"
  /\ result.st = "ok" \/ result.err.key = param_map.key

\* C27: sparse write through a settings indirection: encoding a plain
\* settings parameter to file writes the "settings = label" key in the parent
\* block if and only if the referred Section exists and at least one of its
\* parameters differs from its schema default; when every parameter of the
\* referred Section is default, neither the settings key nor the referred
\* block header is written.
C27_SettingsSparseWrite ==
  \A param_map \in PlainSettings :
    SettingsEncoded(param_map) =>
      IF RefersToConfigured(param_map)
      THEN /\ result.st = "ok"
           /\ InBlock(param_map.key)
           /\ file_out[BlockOf(<<section.key, section.label>>)][param_map.key]
                = <<ReferredId(param_map.ref)[2]>>
      ELSE ~KeyWritten(param_map.key) /\ ~HeaderWritten(param_map.ref)

\* the same, for the settings parameters that hold a label
C27_SettingsSparseWriteLabelled ==
  \A param_map \in PlainSettings :
    (SettingsEncoded(param_map) /\ Truthy(Val(param_map.key))) =>
      IF RefersToConfigured(param_map)
      THEN /\ result.st = "ok"
           /\ InBlock(param_map.key)
           /\ file_out[BlockOf(<<section.key, section.label>>)][param_map.key]
                = <<ReferredId(param_map.ref)[2]>>
      ELSE ~KeyWritten(param_map.key) /\ ~HeaderWritten(param_map.ref)

\* the step is an encode of the tree, to deployment form or to the file,
\* that ends
EncodeStep == result'.op \in {"to_cfn", "to_file"} /\ result'.st = "ok"

\* the step repeats the encode before it, in the same iteration order
RepeatedEncode == EncodeStep /\ result.st = "ok" /\ result.op = result'.op /\ result.order = result'.order

\* what the slots hold, the item of EFSOptions that an external lookup
\* decides (the mount target) put aside
SlotsBut(out) ==
  [slot \in DOMAIN out |->
     IF slot = "EFSOptions" THEN SubSeq(out[slot], 1, Len(EFS.params)) ELSE out[slot]]

\* C28: the tree is mutated only during the initial build: encoding a built
\* tree to deployment form or to file form, in any order and any number of
\* times, leaves the set of sections in the tree and the value of every
\* parameter unchanged, so repeated encodes of the same tree produce the
\* same output.
C28_EncodeLeavesTree ==
  [][/\ EncodeStep => pcluster_config' = pcluster_config
     /\ (RepeatedEncode /\ result'.op = "to_cfn") => SlotsBut(cfn_out') = SlotsBut(cfn_out)
     /\ (RepeatedEncode /\ result'.op = "to_file") => file_out' = file_out]_vars

\* the second half of it: a repeated encode gives the output of the first
C28_RepeatedEncodeSameOutput ==
  [][/\ (RepeatedEncode /\ result'.op = "to_cfn") => SlotsBut(cfn_out') = SlotsBut(cfn_out)
     /\ (RepeatedEncode /\ result'.op = "to_file") => file_out' = file_out]_vars

\* the encodes of a cluster whose scheduler is not awsbatch and whose list
\* of policies does not name the awsbatch policy leave the tree as it is
C28_EncodeLeavesTreeNoBatchPolicy ==
  [][(EncodeStep /\ section.key = "cluster" /\ ~ValIsBatch
      /\ \A i \in 1..Len(Val("additional_iam_policies").v) :
           Val("additional_iam_policies").v[i] # aws_batch_iam_policy)
       => pcluster_config' = pcluster_config]_vars

\* the SharedDir slot as the cluster's shared_dir parameter writes it: the
\* text it holds, its schema default when it holds none
SharedDirSingle ==
  /\ "SharedDir" \in DOMAIN cfn_out
  /\ cfn_out["SharedDir"] = Str(IF Val("shared_dir") = None THEN ClusterDefault("shared_dir")
                                ELSE Val("shared_dir"))

\* the SharedDir slot as the multi-instance volume settings write it: the
\* directories of the volumes listed, then the sentinel up to width entries
SharedDirList(width) ==
  /\ "SharedDir" \in DOMAIN cfn_out
  /\ Len(cfn_out["SharedDir"]) = width
  /\ \A i \in 1..width :
       cfn_out["SharedDir"][i] =
         IF i <= Len(MaterializedLabels)
         THEN Encoding(ParamMap(EBS, "shared_dir"),
                       pcluster_config[<<"ebs", MaterializedLabels[i]>>].params["shared_dir"].value)
         ELSE "NONE"

\* C29: in every encode of the cluster section to deployment form, the
\* SharedDir slot is written by exactly one producer: by the cluster's
\* shared_dir parameter (a single value) when the tree holds no volume
\* section, and by the multi-instance volume settings (the 5-entry list) when
\* it holds at least one; it is never written by both and never left out,
\* for every combination of settings value and materialized volume sections
\* reachable by a build.
C29_SharedDirOneProducer ==
  (result.op = "to_cfn" /\ section # <<>> /\ section.key = "cluster") =>
    /\ result.st = "ok"
    /\ IF VolumeIds = {} THEN SharedDirSingle
       ELSE SharedDirList(max_number_of_ebs_volumes)

\* the same for the encodes that end, of a tree whose settings value names
\* its volume sections and no more than 5 of them
C29_SharedDirOneProducerWhenNamed ==
  (ClusterEncoded /\ Len(ListedLabels) <= max_number_of_ebs_volumes) =>
    IF VolumeIds = {} THEN SharedDirSingle
    ELSE SharedDirList(max_number_of_ebs_volumes)

\* the three size slots of the mapping decoded hold non-negative integer text
SizeSlotsGiven ==
  /\ CfnGiven(cfn_params)
  /\ \A name \in {"DesiredSize", "MaxSize", "MinSize"} :
       Len(Slot(name)) = 1 /\ IsIntText(Slot(name)[1])

\* the slot encoded holds the text of the slot decoded
SlotReproduced(name) == name \in DOMAIN cfn_out /\ cfn_out[name] = Slot(name)

\* C30: decoding a deployment mapping whose DesiredSize, MaxSize and MinSize
\* slots hold non-negative integer text and encoding the tree back to
\* deployment form reproduces the same text in each of the three slots, for
\* every scheduler value.
C30_SizeSlotsRoundTrip ==
  (ClusterEncoded /\ SizeSlotsGiven) =>
    \A name \in {"DesiredSize", "MaxSize", "MinSize"} : SlotReproduced(name)

\* C30 as amended: DesiredSize and MaxSize are reproduced for every
\* scheduler; MinSize is reproduced with awsbatch, and with a traditional
\* scheduler it comes back as 0 when it was 0 and as the text of DesiredSize
\* when it was greater than 0.
C30_SizeSlotsRoundTripFloor ==
  (ClusterEncoded /\ SizeSlotsGiven) =>
    /\ SlotReproduced("DesiredSize")
    /\ SlotReproduced("MaxSize")
    /\ "MinSize" \in DOMAIN cfn_out
    /\ cfn_out["MinSize"] =
         IF SlotIsBatch THEN Slot("MinSize")
         ELSE IF IntTable[Slot("MinSize")[1]] > 0 THEN Slot("DesiredSize")
         ELSE <<"0">>

\* C30 witness: a slurm mapping with MinSize=3 and DesiredSize=7 was decoded
\* and encoded back, and MinSize came back as 7
C30_Witness ==
  /\ ClusterEncoded /\ SizeSlotsGiven /\ Slot("Scheduler") = <<"slurm">>
  /\ Slot("MinSize") = <<"3">> /\ Slot("DesiredSize") = <<"7">>
  /\ cfn_out["DesiredSize"] = <<"7">> /\ cfn_out["MaxSize"] = <<"20">>
  /\ cfn_out["MinSize"] = <<"7">>

\* the same round trip with awsbatch, where MinSize is reproduced
C30_WitnessBatch ==
  /\ ClusterEncoded /\ SizeSlotsGiven /\ SlotIsBatch
  /\ Slot("MinSize") = <<"2">> /\ Slot("DesiredSize") = <<"5">>
  /\ cfn_out["DesiredSize"] = <<"5">> /\ cfn_out["MaxSize"] = <<"10">>
  /\ cfn_out["MinSize"] = <<"2">>

====
